---- MODULE Spec2Model ----
(***************************************************************************)
(* Model of the enhanced document-processing pipeline of scirag:           *)
(* EnhancedDocumentProcessor (document_processor.py), the monitor it owns  *)
(* (monitoring.py), the specialised stages it dispatches to, and the       *)
(* chunker and classifier it calls.                                        *)
(*                                                                         *)
(* Text is a sequence of one-character strings over an abstract markup     *)
(* alphabet:                                                               *)
(*   "a"      a prose letter                                               *)
(*   " "      whitespace                                                   *)
(*   "$"      the inline-math delimiter                                    *)
(*   "<" ">"  begin / end of a figure block (\begin{figure}..\end{figure}) *)
(*   "[" "]"  begin / end of a table block  (\begin{table}..\end{table})   *)
(*   ":"      the definition marker ("definition:")                        *)
(***************************************************************************)
EXTENDS Integers, Sequences, FiniteSets, TLC

VARIABLES
    fs,       \* the file system: path -> [kind, data]
    proc,     \* the EnhancedDocumentProcessor's configuration fields
    monitor,  \* the processor's EnhancedProcessingMonitor
    last,     \* the last call made on the processor and what it returned
    cin,      \* arguments of a direct chunk_document call
    cout,     \* its result
    wk,       \* per-worker position inside process_document
    wmon,     \* the monitors of the workers' processors
    arrived,  \* everything ever handed to each history of the monitor
    requested,\* the value last asked for, per threshold name, via set_threshold
    rag,      \* the SciRagEnhanced object: its processing_stats
    eq,       \* argument of a process_equation call
    eqres,    \* its result
    config,   \* the ProductionConfig object
    validator,\* the DataIntegrityValidator's message lists
    arg,      \* arguments of a direct call: of an extractor, of the asset
              \* processor, of the checker, of the SciRagEnhanced constructor
    ret       \* its result

vars == <<fs, proc, monitor, last, cin, cout, wk, wmon, arrived, requested, rag,
          eq, eqres, config, validator, arg, ret>>

----------------------------------------------------------------------------
(* Bounds *)

MaxSegs == 3          \* segments per document handed to the chunker
MaxChunkSize == 3     \* largest target chunk size tried
MaxOps == 2           \* calls made on one processor
MaxBatch == 2         \* documents per process_multiple_documents call
MaxFaultIdx == 2      \* chunk positions at which a stage may be made to raise
MaxHistory == 2       \* max_history of the monitors under test
MaxMonOps == 4        \* calls made on one monitor
MaxLoads == 2         \* load_documents_enhanced calls on one SciRagEnhanced
MaxEqLen == 3         \* characters of an enumerated equation
MaxGrow == 2          \* times an equation is appended to

----------------------------------------------------------------------------
(* Text helpers *)

Min(a, b) == IF a <= b THEN a ELSE b

Max(a, b) == IF a >= b THEN a ELSE b

SetMax(S) == CHOOSE x \in S : \A y \in S : y <= x

SetMin(S) == CHOOSE x \in S : \A y \in S : x <= y

Has(text, c) == \E i \in 1..Len(text) : text[i] = c

RECURSIVE Concat(_)
Concat(ss) == IF ss = <<>> THEN <<>> ELSE Head(ss) \o Concat(Tail(ss))

RECURSIVE Strip(_)
\* str.strip(): drop leading and trailing whitespace
Strip(t) ==
    IF t = <<>> THEN <<>>
    ELSE IF t[1] \in {" ", "\n"} THEN Strip(Tail(t))
    ELSE IF t[Len(t)] \in {" ", "\n"} THEN Strip(SubSeq(t, 1, Len(t) - 1))
    ELSE t

RECURSIVE CollapseWs(_)
CollapseWs(t) ==
    IF Len(t) <= 1 THEN t
    ELSE IF t[1] = " " /\ t[2] = " " THEN CollapseWs(Tail(t))
    ELSE <<t[1]>> \o CollapseWs(Tail(t))

\* whitespace normalisation: runs of whitespace become one blank, ends trimmed
NormalizeWs(t) == Strip(CollapseWs(t))

----------------------------------------------------------------------------
(* Documents: concatenations of a few markup segments *)

Segments ==
    { <<"a">>, <<" ">>, <<"$", "a", "$">>, <<"<", "a", ">">>,
      <<"[", "a", "]">>, <<"a", " ", ":", "a">>, <<"$">> }

SegSeqs(n) == UNION { [1..k -> Segments] : k \in 0..n }

DocsUpTo(n) == { Concat(s) : s \in SegSeqs(n) }

ContentTypes ==
    {"PROSE", "EQUATION", "FIGURE", "TABLE", "DEFINITION", "CODE",
     "REFERENCE", "MIXED", "OTHER"}

NoPayload == [kind |-> "none"]

----------------------------------------------------------------------------
(* ContentClassifier.classify: each detector reports a confidence (percent) *)
(* from the presence of its type's marker; the highest confidence wins,    *)
(* ties break EQUATION > TABLE > FIGURE > DEFINITION > PROSE; below the    *)
(* floor the result is PROSE at the floor confidence.                      *)

ConfidenceFloor == 30

MarkerConfidence == 90

DetectorConfidence(text, type) ==
    LET marker == CASE type = "EQUATION"   -> "$"
                    [] type = "TABLE"      -> "["
                    [] type = "FIGURE"     -> "<"
                    [] type = "DEFINITION" -> ":"
    IN IF Has(text, marker) THEN MarkerConfidence ELSE 0

DetectorOrder == <<"EQUATION", "TABLE", "FIGURE", "DEFINITION">>

Classify(text) ==
    LET best == SetMax({ DetectorConfidence(text, DetectorOrder[i]) : i \in 1..4 })
        first == SetMin({ i \in 1..4 : DetectorConfidence(text, DetectorOrder[i]) = best })
    IN IF best < ConfidenceFloor
       THEN [content_type |-> "PROSE", confidence |-> ConfidenceFloor]
       ELSE [content_type |-> DetectorOrder[first], confidence |-> best]

----------------------------------------------------------------------------
(* EnhancedChunker.chunk_document *)

RECURSIVE SpansFrom(_, _, _, _)
\* the delimited blocks open..close found scanning from position i, as
\* <<first, last>> character positions
SpansFrom(text, i, open, close) ==
    LET starts == { j \in i..Len(text) : text[j] = open }
    IN IF starts = {} THEN {}
       ELSE LET s == SetMin(starts)
                ends == { k \in (s + 1)..Len(text) : text[k] = close }
            IN IF ends = {} THEN {}
               ELSE {<<s, SetMin(ends)>>} \cup SpansFrom(text, SetMin(ends) + 1, open, close)

\* detect_equations: the inline equation spans $..$
EquationSpans(text) == SpansFrom(text, 1, "$", "$")

FigureSpans(text) == SpansFrom(text, 1, "<", ">")

TableSpans(text) == SpansFrom(text, 1, "[", "]")

\* the atomic spans the chunker detects under its preserve_* flags
DetectedSpans(text, preserve_math, preserve_figures, preserve_tables) ==
    (IF preserve_math THEN EquationSpans(text) ELSE {})
    \cup (IF preserve_figures THEN FigureSpans(text) ELSE {})
    \cup (IF preserve_tables THEN TableSpans(text) ELSE {})

\* boundary b lies between characters b and b+1
StrictlyInside(b, span) == span[1] <= b /\ b < span[2]

LegalBoundary(b, spans) == \A sp \in spans : ~StrictlyInside(b, sp)

\* characters of overlap carried from the end of one chunk into the next
OverlapChars(chunk_size, overlap_pct) == (chunk_size * overlap_pct) \div 100

\* variant: the split is made at the target size whatever it cuts
SplitPointAtTargetSize(text, spans, from, pos, chunk_size) ==
    Min(from + chunk_size, Len(text))

\* where the chunk that starts filling at `from` and whose new text starts
\* at `pos` ends: at the target size, moved off any atomic span
SplitPoint(text, spans, from, pos, chunk_size) ==
    LET n == Len(text)
        cand == Min(from + chunk_size, n)
    IN IF cand >= n THEN n
       ELSE IF LegalBoundary(cand, spans) THEN cand
       ELSE LET back == { b \in (pos + 1)..cand : LegalBoundary(b, spans) }
            IN IF back # {} THEN SetMax(back)
               ELSE SetMin({ b \in cand..n : b = n \/ LegalBoundary(b, spans) })

MakeChunk(text, source_id, index, overlap) ==
    LET cls == Classify(text)
    IN [id |-> <<source_id, index>>,
        text |-> text,
        source_id |-> source_id,
        chunk_index |-> index,
        content_type |-> cls.content_type,
        confidence |-> cls.confidence,
        overlap |-> overlap,
        mathematical_content |-> NoPayload,
        asset_content |-> NoPayload,
        glossary_content |-> NoPayload]

RECURSIVE ChunkFromSkipsOverlap(_, _, _, _, _, _, _)
\* variant: the next chunk resumes after the overlap instead of carrying it
ChunkFromSkipsOverlap(text, spans, pos, index, chunk_size, ov, source_id) ==
    IF pos >= Len(text) THEN <<>>
    ELSE LET from == IF index = 0 THEN 0 ELSE Min(pos + ov, Len(text) - 1)
             end == SplitPoint(text, spans, from, from, chunk_size)
         IN <<MakeChunk(SubSeq(text, from + 1, end), source_id, index, 0)>>
            \o ChunkFromSkipsOverlap(text, spans, end, index + 1, chunk_size, ov,
                                     source_id)

RECURSIVE ChunkFrom(_, _, _, _, _, _, _)
ChunkFrom(text, spans, pos, index, chunk_size, ov, source_id) ==
    IF pos >= Len(text) THEN <<>>
    ELSE LET from == IF index = 0 THEN 0 ELSE Max(pos - ov, 0)
             end == SplitPoint(text, spans, from, pos, chunk_size)
         IN <<MakeChunk(SubSeq(text, from + 1, end), source_id, index, pos - from)>>
            \o ChunkFrom(text, spans, end, index + 1, chunk_size, ov, source_id)

ChunkDocument(chunker, text, source_id) ==
    ChunkFrom(text,
              DetectedSpans(text, chunker.preserve_math, chunker.preserve_figures,
                            chunker.preserve_tables),
              0, 0, chunker.chunk_size,
              OverlapChars(chunker.chunk_size, chunker.overlap_pct), source_id)

\* the body of chunk i: its text without the overlap carried into its start
Body(chunk) == SubSeq(chunk.text, chunk.overlap + 1, Len(chunk.text))

RECURSIVE Reconstruct(_)
Reconstruct(chunks) ==
    IF chunks = <<>> THEN <<>> ELSE Body(Head(chunks)) \o Reconstruct(Tail(chunks))

RECURSIVE BodyEnds(_, _)
\* the split points: the position in the document where each chunk's body ends
BodyEnds(chunks, pos) ==
    IF chunks = <<>> THEN {}
    ELSE {pos + Len(Body(Head(chunks)))}
         \cup BodyEnds(Tail(chunks), pos + Len(Body(Head(chunks))))

----------------------------------------------------------------------------
(* EnhancedProcessingMonitor *)

\* variant: a full history refuses the new entry instead of evicting the oldest
DequeAppendDropsNewest(q, x, maxlen) ==
    IF maxlen = 0 THEN <<>>
    ELSE IF Len(q) >= maxlen THEN q
    ELSE Append(q, x)

\* deque(maxlen=n).append
DequeAppend(q, x, maxlen) ==
    IF maxlen = 0 THEN <<>>
    ELSE IF Len(q) >= maxlen THEN SubSeq(q, Len(q) - maxlen + 2, Len(q)) \o <<x>>
    ELSE Append(q, x)

\* self.thresholds as __init__ sets it. Response times are in milliseconds,
\* the error rate and the resource usages in percent.
DefaultThresholds ==
    [max_response_time |-> 5000,
     max_error_rate |-> 10,
     max_memory_usage |-> 80,
     max_cpu_usage |-> 80]

NewMonitor(max_history) ==
    [max_history |-> max_history,
     success_count |-> 0,
     error_count |-> 0,
     response_times |-> <<>>,
     error_history |-> <<>>,
     memory_usage |-> <<>>,
     cpu_usage |-> <<>>,
     thresholds |-> DefaultThresholds]

record_success(m, operation, response_time) ==
    [m EXCEPT !.success_count = @ + 1,
              !.response_times = DequeAppend(@, response_time, m.max_history)]

record_error(m, operation, error_message) ==
    [m EXCEPT !.error_count = @ + 1,
              !.error_history =
                  DequeAppend(@, [operation |-> operation, error |-> error_message],
                              m.max_history)]

\* psutil hands back a sample, or raises: [ok, usage_percent]
record_memory_usage(m, sample) ==
    IF sample.ok
    THEN [m EXCEPT !.memory_usage =
                     DequeAppend(@, [usage_percent |-> sample.usage_percent],
                                 m.max_history)]
    ELSE m

record_cpu_usage(m, sample) ==
    IF sample.ok
    THEN [m EXCEPT !.cpu_usage =
                     DequeAppend(@, [usage_percent |-> sample.usage_percent],
                                 m.max_history)]
    ELSE m

RECURSIVE SumSeq(_)
SumSeq(q) == IF q = <<>> THEN 0 ELSE Head(q) + SumSeq(Tail(q))

\* a quotient kept exact: num / den, with 0 / 1 where the code yields 0.0
Ratio(num, den) == IF den > 0 THEN [num |-> num, den |-> den] ELSE [num |-> 0, den |-> 1]

\* ratio > bound
RatioAbove(r, bound) == r.num > bound * r.den

\* error_rate is a fraction in the code; the model keeps it in percent
get_metrics(m) ==
    LET total_operations == m.success_count + m.error_count
    IN [success_count |-> m.success_count,
        error_count |-> m.error_count,
        total_operations |-> total_operations,
        error_rate |-> Ratio(100 * m.error_count, total_operations),
        avg_response_time |-> Ratio(SumSeq(m.response_times), Len(m.response_times)),
        thresholds |-> m.thresholds]

\* the literal 0.05 of check_health, in percent
WarningErrorRate == 5

\* variant: the CPU samples are not looked at
check_health_without_cpu(m) ==
    LET metrics == get_metrics(m)
        health_issues ==
            (IF RatioAbove(metrics.avg_response_time, m.thresholds.max_response_time)
             THEN <<"High average response time">> ELSE <<>>)
            \o (IF RatioAbove(metrics.error_rate, m.thresholds.max_error_rate)
                THEN <<"High error rate">> ELSE <<>>)
            \o (IF /\ m.memory_usage # <<>>
                   /\ m.memory_usage[Len(m.memory_usage)].usage_percent
                        > m.thresholds.max_memory_usage
                THEN <<"High memory usage">> ELSE <<>>)
    IN [status |-> IF health_issues # <<>> THEN "unhealthy"
                   ELSE IF RatioAbove(metrics.error_rate, WarningErrorRate) THEN "degraded"
                   ELSE "healthy",
        metrics |-> metrics,
        health_issues |-> health_issues]

check_health(m) ==
    LET metrics == get_metrics(m)
        health_issues ==
            (IF RatioAbove(metrics.avg_response_time, m.thresholds.max_response_time)
             THEN <<"High average response time">> ELSE <<>>)
            \o (IF RatioAbove(metrics.error_rate, m.thresholds.max_error_rate)
                THEN <<"High error rate">> ELSE <<>>)
            \o (IF /\ m.memory_usage # <<>>
                   /\ m.memory_usage[Len(m.memory_usage)].usage_percent
                        > m.thresholds.max_memory_usage
                THEN <<"High memory usage">> ELSE <<>>)
            \o (IF /\ m.cpu_usage # <<>>
                   /\ m.cpu_usage[Len(m.cpu_usage)].usage_percent
                        > m.thresholds.max_cpu_usage
                THEN <<"High CPU usage">> ELSE <<>>)
    IN [status |-> IF health_issues # <<>> THEN "unhealthy"
                   ELSE IF RatioAbove(metrics.error_rate, WarningErrorRate) THEN "degraded"
                   ELSE "healthy",
        metrics |-> metrics,
        health_issues |-> health_issues]

\* an unknown metric name is logged and ignored
set_threshold(m, metric, value) ==
    IF metric \in DOMAIN m.thresholds
    THEN [m EXCEPT !.thresholds[metric] = value]
    ELSE m

----------------------------------------------------------------------------
(* The specialised stages *)

\* re.search(r'\$([^$]+)\$', text): the leftmost "$" whose next "$" is at
\* least two positions on; the group between them, stripped
ExtractEquation(text) ==
    LET NextDollar(i) == { j \in (i + 1)..Len(text) : text[j] = "$" }
        starts == { i \in 1..Len(text) :
                      /\ text[i] = "$"
                      /\ NextDollar(i) # {}
                      /\ SetMin(NextDollar(i)) >= i + 2 }
    IN IF starts = {} THEN [found |-> FALSE, value |-> <<>>]
       ELSE LET i == SetMin(starts)
            IN [found |-> TRUE,
                value |-> Strip(SubSeq(text, i + 1, SetMin(NextDollar(i)) - 1))]

\* MathematicalProcessor.create_mathematical_content
CreateMathematicalContent(equation) ==
    [kind |-> "math", equation_tex |-> equation]

RECURSIVE SplitOn(_, _, _, _, _)
\* str.split(sep): the pieces between the separators, empty ones included
SplitOn(text, sep, i, piece, acc) ==
    IF i > Len(text) THEN Append(acc, piece)
    ELSE IF text[i] = sep THEN SplitOn(text, sep, i + 1, <<>>, Append(acc, piece))
    ELSE SplitOn(text, sep, i + 1, Append(piece, text[i]), acc)

\* [col.strip() for col in row.split('&')]
RowCells(row) ==
    LET columns == SplitOn(row, "&", 1, <<>>, <<>>)
    IN [k \in 1..Len(columns) |-> Strip(columns[k])]

RECURSIVE TableRows(_, _)
\* the loop of _extract_table_data over the rows: blank rows are skipped
TableRows(rows, acc) ==
    IF rows = <<>> THEN acc
    ELSE IF Strip(Head(rows)) = <<>> THEN TableRows(Tail(rows), acc)
    ELSE TableRows(Tail(rows), Append(acc, RowCells(Head(rows))))

\* AssetProcessor._extract_table_data: "(" is \begin{tabular}{..}, ")" is
\* \end{tabular}, ";" the row break and "&" the column break; <<>> is None
ExtractTableData(text) ==
    LET opens == { i \in 1..Len(text) :
                     text[i] = "(" /\ \E j \in (i + 1)..Len(text) : text[j] = ")" }
    IN IF opens = {} THEN <<>>
       ELSE LET i == SetMin(opens)
                j == SetMin({ k \in (i + 1)..Len(text) : text[k] = ")" })
            IN TableRows(SplitOn(SubSeq(text, i + 1, j - 1), ";", 1, <<>>, <<>>),
                         <<>>)

\* AssetProcessor._contains_figure: "<" is \begin{figure}
ContainsFigure(text) == Has(text, "<")

\* AssetProcessor._contains_table: "[" is \begin{table}
ContainsTable(text) == Has(text, "[") \/ Has(text, "(")

\* AssetProcessor.process_asset: a figure if a figure anchor is present,
\* else a table if a table anchor is present, else None
ProcessAsset(text) ==
    IF text = <<>> THEN NoPayload
    ELSE IF ContainsFigure(text)
         THEN [kind |-> "asset", asset_type |-> "figure", table_data |-> <<>>]
    ELSE IF ContainsTable(text)
         THEN [kind |-> "asset", asset_type |-> "table",
               table_data |-> ExtractTableData(text)]
    ELSE NoPayload

RECURSIVE ReSplit(_, _, _, _, _, _)
\* re.split(r'(open.*?close)', text, re.DOTALL): the flag is passed in the
\* place of maxsplit, so "." does not match a newline and at most 16 splits
\* are made (more than a text here can hold); the pieces and the matches
ReSplit(text, open, close, i, piece, acc) ==
    LET ends == { j \in (i + 1)..Len(text) :
                    /\ text[j] = close
                    /\ \A k \in (i + 1)..(j - 1) : text[k] # "\n" }
    IN IF i > Len(text) THEN Append(acc, piece)
       ELSE IF text[i] = open /\ ends # {}
            THEN ReSplit(text, open, close, SetMin(ends) + 1, <<>>,
                         acc \o <<piece, SubSeq(text, i, SetMin(ends))>>)
       ELSE ReSplit(text, open, close, i + 1, Append(piece, text[i]), acc)

NonBlank(block) == Strip(block) # <<>>

\* AssetProcessor._split_into_asset_blocks
SplitIntoAssetBlocks(text) ==
    SelectSeq(ReSplit(text, "<", ">", 1, <<>>, <<>>), NonBlank)
      \o SelectSeq(ReSplit(text, "[", "]", 1, <<>>, <<>>), NonBlank)

RECURSIVE AssetsOf(_)
\* the loop of extract_all_assets over the blocks
AssetsOf(blocks) ==
    IF blocks = <<>> THEN <<>>
    ELSE IF ProcessAsset(Head(blocks)) # NoPayload
         THEN <<ProcessAsset(Head(blocks))>> \o AssetsOf(Tail(blocks))
    ELSE AssetsOf(Tail(blocks))

\* AssetProcessor.extract_all_assets
ExtractAllAssets(text) == AssetsOf(SplitIntoAssetBlocks(text))

\* re.sub(r'[^\w\s-]', '', term)
RECURSIVE CleanTerm(_)
CleanTerm(t) ==
    IF t = <<>> THEN <<>>
    ELSE IF Head(t) \in {"a", " "} THEN <<Head(t)>> \o CleanTerm(Tail(t))
    ELSE CleanTerm(Tail(t))

\* GlossaryExtractor._extract_term with the pattern ([^.!?]+?)\s+definition:
ExtractTerm(sentence) ==
    LET n == Len(sentence)
        ks == { k \in 1..n : \E p \in (k + 2)..n :
                  /\ sentence[p] = ":"
                  /\ \A q \in (k + 1)..(p - 1) : sentence[q] = " " }
    IN IF ks = {} THEN <<>>
       ELSE CleanTerm(Strip(SubSeq(sentence, 1, SetMin(ks))))

\* GlossaryExtractor._extract_definition with the pattern definition:\s*([^.!?]+)
ExtractDefinition(sentence) ==
    LET n == Len(sentence)
        ps == { p \in 1..(n - 1) : sentence[p] = ":" }
    IN IF ps = {} THEN <<>>
       ELSE Strip(SubSeq(sentence, SetMin(ps) + 1, n))

RECURSIVE SplitFrom(_, _, _, _)
\* re.split(r'[.!?]+', text), stripped, the empty pieces dropped ("." is the
\* terminal punctuation of this alphabet)
SplitFrom(text, i, piece, acc) ==
    LET closed == IF Strip(piece) = <<>> THEN acc ELSE Append(acc, Strip(piece))
    IN IF i > Len(text) THEN closed
       ELSE IF text[i] = "." THEN SplitFrom(text, i + 1, <<>>, closed)
       ELSE SplitFrom(text, i + 1, Append(piece, text[i]), acc)

\* GlossaryExtractor._split_into_sentences
SplitIntoSentences(text) == SplitFrom(text, 1, <<>>, <<>>)

\* GlossaryExtractor._is_definition_sentence, with the indicator definition:
IsDefinitionSentence(sentence) == Has(sentence, ":")

\* variant: a candidate is emitted whatever its term and definition are
GlossaryOfSentenceKeepsAll(sentence) ==
    IF ~IsDefinitionSentence(sentence) THEN <<>>
    ELSE << [kind |-> "glossary", term |-> ExtractTerm(sentence),
             definition |-> ExtractDefinition(sentence)] >>

\* the body of the loop of extract_glossary_terms: what one sentence adds
GlossaryOfSentence(sentence) ==
    IF ~IsDefinitionSentence(sentence) THEN <<>>
    ELSE IF ExtractTerm(sentence) # <<>> /\ ExtractDefinition(sentence) # <<>>
         THEN << [kind |-> "glossary", term |-> ExtractTerm(sentence),
                  definition |-> ExtractDefinition(sentence)] >>
         ELSE <<>>

RECURSIVE GlossaryOfSentences(_)
GlossaryOfSentences(sentences) ==
    IF sentences = <<>> THEN <<>>
    ELSE GlossaryOfSentence(Head(sentences)) \o GlossaryOfSentences(Tail(sentences))

\* GlossaryExtractor.extract_glossary_terms
ExtractGlossaryTerms(text) ==
    IF text = <<>> THEN <<>>
    ELSE GlossaryOfSentences(SplitIntoSentences(text))

----------------------------------------------------------------------------
(* EnhancedDocumentProcessor *)

NewProcessor(chunk_size, overlap_pct, enable_math, enable_asset, enable_glossary) ==
    [chunk_size |-> chunk_size,
     overlap_pct |-> overlap_pct,
     enable_mathematical_processing |-> enable_math,
     enable_asset_processing |-> enable_asset,
     enable_glossary_extraction |-> enable_glossary,
     chunker |-> [chunk_size |-> chunk_size,
                  overlap_pct |-> overlap_pct,
                  preserve_math |-> enable_math,
                  preserve_figures |-> enable_asset,
                  preserve_tables |-> enable_asset],
     math_processor |-> enable_math,         \* present (not None)
     asset_processor |-> enable_asset,
     glossary_extractor |-> enable_glossary]

\* open(file_path).read(): the text, or the exception raised
OpenRead(file) ==
    CASE file.kind = "file"    -> [exc |-> "none", value |-> file.data]
      [] file.kind = "missing" -> [exc |-> "FileNotFoundError", value |-> <<>>]
      [] file.kind = "denied"  -> [exc |-> "PermissionError", value |-> <<>>]
      [] file.kind = "binary"  -> [exc |-> "UnicodeDecodeError", value |-> <<>>]

\* _read_document: any exception is logged and swallowed
ReadDocument(file) ==
    LET r == OpenRead(file)
    IN IF r.exc # "none" THEN <<>> ELSE r.value

\* what the specialised processors' own fallback would attach
FallbackMathematicalContent(equation) ==
    [kind |-> "math", equation_tex |-> equation, error |-> "raised"]

\* The _add_* methods return the chunk and the number of exceptions they
\* caught; `raises` says whether the stage call, if made, raises.
\* variant: the payload is attached although the stage raised
AddMathematicalContentKeepsPartial(p, chunk, raises) ==
    IF ~p.math_processor THEN [chunk |-> chunk, caught |-> 0]
    ELSE LET equation == ExtractEquation(chunk.text)
         IN IF equation.found /\ equation.value # <<>>
            THEN [chunk |-> [chunk EXCEPT !.mathematical_content =
                                IF raises THEN FallbackMathematicalContent(equation.value)
                                ELSE CreateMathematicalContent(equation.value)],
                  caught |-> IF raises THEN 1 ELSE 0]
            ELSE [chunk |-> chunk, caught |-> 0]

AddMathematicalContent(p, chunk, raises) ==
    IF ~p.math_processor THEN [chunk |-> chunk, caught |-> 0]
    ELSE LET equation == ExtractEquation(chunk.text)
         IN IF equation.found /\ equation.value # <<>>
            THEN IF raises
                 THEN [chunk |-> chunk, caught |-> 1]
                 ELSE [chunk |-> [chunk EXCEPT !.mathematical_content =
                                     CreateMathematicalContent(equation.value)],
                       caught |-> 0]
            ELSE [chunk |-> chunk, caught |-> 0]

AddAssetContent(p, chunk, raises) ==
    IF ~p.asset_processor THEN [chunk |-> chunk, caught |-> 0]
    ELSE IF raises THEN [chunk |-> chunk, caught |-> 1]
    ELSE LET asset_content == ProcessAsset(chunk.text)
         IN IF asset_content # NoPayload
            THEN [chunk |-> [chunk EXCEPT !.asset_content = asset_content], caught |-> 0]
            ELSE [chunk |-> chunk, caught |-> 0]

AddGlossaryContent(p, chunk, raises) ==
    IF ~p.glossary_extractor THEN [chunk |-> chunk, caught |-> 0]
    ELSE IF raises THEN [chunk |-> chunk, caught |-> 1]
    ELSE LET glossary_terms == ExtractGlossaryTerms(chunk.text)
         IN IF glossary_terms # <<>>
            THEN [chunk |-> [chunk EXCEPT !.glossary_content = glossary_terms[1]],
                  caught |-> 0]
            ELSE [chunk |-> chunk, caught |-> 0]

\* variant: the asset stage is dispatched without looking at the content type
EnhanceChunkAssetUntyped(p, chunk, raises) ==
    LET m == IF /\ p.enable_mathematical_processing
                /\ chunk.content_type = "EQUATION"
                /\ p.math_processor
             THEN AddMathematicalContent(p, chunk, raises)
             ELSE [chunk |-> chunk, caught |-> 0]
        a == IF p.enable_asset_processing /\ p.asset_processor
             THEN AddAssetContent(p, m.chunk, raises)
             ELSE [chunk |-> m.chunk, caught |-> 0]
        g == IF /\ p.enable_glossary_extraction
                /\ a.chunk.content_type = "DEFINITION"
                /\ p.glossary_extractor
             THEN AddGlossaryContent(p, a.chunk, raises)
             ELSE [chunk |-> a.chunk, caught |-> 0]
    IN [chunk |-> g.chunk, caught |-> m.caught + a.caught + g.caught]

\* _enhance_chunk: dispatch on the chunk's content type
EnhanceChunk(p, chunk, raises) ==
    LET m == IF /\ p.enable_mathematical_processing
                /\ chunk.content_type = "EQUATION"
                /\ p.math_processor
             THEN AddMathematicalContent(p, chunk, raises)
             ELSE [chunk |-> chunk, caught |-> 0]
        a == IF /\ p.enable_asset_processing
                /\ m.chunk.content_type \in {"FIGURE", "TABLE"}
                /\ p.asset_processor
             THEN AddAssetContent(p, m.chunk, raises)
             ELSE [chunk |-> m.chunk, caught |-> 0]
        g == IF /\ p.enable_glossary_extraction
                /\ a.chunk.content_type = "DEFINITION"
                /\ p.glossary_extractor
             THEN AddGlossaryContent(p, a.chunk, raises)
             ELSE [chunk |-> a.chunk, caught |-> 0]
    IN [chunk |-> g.chunk, caught |-> m.caught + a.caught + g.caught]

RECURSIVE EnhanceFromDropsFailed(_, _, _, _, _)
\* variant: a chunk whose stage raised is left out of the list
EnhanceFromDropsFailed(p, chunks, stage_faults, i, acc) ==
    IF i > Len(chunks) THEN acc
    ELSE EnhanceFromDropsFailed(p, chunks, stage_faults, i + 1,
             (LET r == EnhanceChunk(p, chunks[i], i \in stage_faults)
              IN [chunks |-> IF r.caught > 0 THEN acc.chunks
                             ELSE Append(acc.chunks, r.chunk),
                  caught |-> acc.caught + r.caught]))

\* variant: a chunk whose stage raised is not appended
EnhanceStepSkipsRaising(p, chunk, raises, acc) ==
    LET r == EnhanceChunk(p, chunk, raises)
    IN [chunks |-> IF r.caught > 0 THEN acc.chunks ELSE Append(acc.chunks, r.chunk),
        caught |-> acc.caught + r.caught]

\* one turn of the loop: enhance the chunk and append it (an EnhancedChunk
\* is always truthy)
EnhanceStep(p, chunk, raises, acc) ==
    LET r == EnhanceChunk(p, chunk, raises)
    IN [chunks |-> Append(acc.chunks, r.chunk), caught |-> acc.caught + r.caught]

RECURSIVE EnhanceFrom(_, _, _, _, _)
\* the loop of process_document over the chunker's list, from position i:
\* acc holds the enhanced chunks appended so far and the exceptions the
\* stages raised
EnhanceFrom(p, chunks, stage_faults, i, acc) ==
    IF i > Len(chunks) THEN acc
    ELSE EnhanceFrom(p, chunks, stage_faults, i + 1,
                     EnhanceStep(p, chunks[i], i \in stage_faults, acc))

NoEnhanced == [chunks |-> <<>>, caught |-> 0]

NoFaults == [chunker |-> FALSE, stage |-> {}]

\* `if not content: return []`
EmptyResult(m) ==
    [ret |-> <<>>, raised |-> FALSE, monitor |-> m, stage_caught |-> 0,
     outcome |-> "empty"]

\* the except branch of process_document
FailedResult(m, error_message) ==
    [ret |-> <<>>, raised |-> FALSE,
     monitor |-> record_error(m, "document_processing", error_message),
     stage_caught |-> 0, outcome |-> "failed"]

\* process_document after the read: CHUNK, ENRICH, AGGREGATE
ProcessContent(p, m, content, source_id, faults) ==
    IF faults.chunker THEN FailedResult(m, "chunker")
    ELSE LET chunks == ChunkDocument(p.chunker, content, source_id)
             r == EnhanceFrom(p, chunks, faults.stage, 1, NoEnhanced)
         IN [ret |-> r.chunks,
             raised |-> FALSE,
             monitor |-> record_success(m, "document_processing", 100),
             stage_caught |-> r.caught,
             outcome |-> "done"]

\* variant: the file is opened outside the try block and _read_document
ProcessDocumentReadsUnguarded(p, m, file, source_id, faults) ==
    LET r == OpenRead(file)
    IN IF r.exc # "none"
       THEN [ret |-> <<>>, raised |-> TRUE, monitor |-> m, stage_caught |-> 0,
             outcome |-> "raised"]
       ELSE IF r.value = <<>> THEN EmptyResult(m)
       ELSE ProcessContent(p, m, r.value, source_id, faults)

ProcessDocument(p, m, file, source_id, faults) ==
    LET content == ReadDocument(file)
    IN IF content = <<>> THEN EmptyResult(m)
       ELSE ProcessContent(p, m, content, source_id, faults)

RECURSIVE ProcessMultipleFromStopsOnFailure(_, _, _, _, _, _, _)
\* variant: the loop ends at the first document that yields no chunk
ProcessMultipleFromStopsOnFailure(p, acc, fsys, file_paths, source_ids, faults, i) ==
    IF i > Min(Len(file_paths), Len(source_ids)) THEN acc
    ELSE LET d == ProcessDocument(p, acc.monitor, fsys[file_paths[i]],
                                  source_ids[i], faults[i])
             next == [ret |-> acc.ret \o d.ret,
                      raised |-> acc.raised \/ d.raised,
                      monitor |-> d.monitor,
                      processed |-> acc.processed + 1]
         IN IF d.ret = <<>> THEN next
            ELSE ProcessMultipleFromStopsOnFailure(p, next, fsys, file_paths,
                                                   source_ids, faults, i + 1)

RECURSIVE ProcessMultipleFrom(_, _, _, _, _, _, _)
\* the loop of process_multiple_documents over zip(file_paths, source_ids),
\* from position i: acc holds all_chunks, the monitor and the number of
\* process_document calls made so far
ProcessMultipleFrom(p, acc, fsys, file_paths, source_ids, faults, i) ==
    IF i > Min(Len(file_paths), Len(source_ids)) THEN acc
    ELSE ProcessMultipleFrom(p,
             (LET d == ProcessDocument(p, acc.monitor, fsys[file_paths[i]],
                                       source_ids[i], faults[i])
              IN [ret |-> acc.ret \o d.ret,
                  raised |-> acc.raised \/ d.raised,
                  monitor |-> d.monitor,
                  processed |-> acc.processed + 1]),
             fsys, file_paths, source_ids, faults, i + 1)

ProcessMultipleDocuments(p, m, fsys, file_paths, source_ids, faults) ==
    ProcessMultipleFrom(p, [ret |-> <<>>, raised |-> FALSE, monitor |-> m, processed |-> 0],
                        fsys, file_paths, source_ids, faults, 1)

----------------------------------------------------------------------------
(* SciRagEnhanced: the statistics it keeps over load_documents_enhanced *)

\* EnhancedProcessingStats()
NewStats ==
    [documents_processed |-> 0,
     chunks_created |-> 0,
     mathematical_content_processed |-> 0,
     assets_processed |-> 0,
     glossary_terms_extracted |-> 0,
     errors |-> 0]

\* the fields of SciRagEnhanced that load_documents_enhanced reads and
\* writes; enhanced_processor says whether the object holds a processor
NewSciRagEnhanced(enhanced_processor) ==
    [enable_enhanced_processing |-> enhanced_processor,
     enhanced_processor |-> enhanced_processor,
     fallback_on_error |-> TRUE,
     enhanced_chunks |-> <<>>,
     processing_stats |-> NewStats]

\* EnhancedChunk.is_mathematical / is_asset / is_glossary
is_mathematical(chunk) ==
    chunk.content_type = "EQUATION" /\ chunk.mathematical_content # NoPayload

is_asset(chunk) ==
    chunk.content_type \in {"FIGURE", "TABLE"} /\ chunk.asset_content # NoPayload

is_glossary(chunk) ==
    chunk.content_type = "DEFINITION" /\ chunk.glossary_content # NoPayload

\* the number of positions of seq that satisfy Test
CountIf(seq, Test(_)) == Cardinality({ i \in 1..Len(seq) : Test(seq[i]) })

\* _update_content_stats
UpdateContentStats(stats, chunks) ==
    [stats EXCEPT
        !.mathematical_content_processed = @ + CountIf(chunks, is_mathematical),
        !.assets_processed = @ + CountIf(chunks, is_asset),
        !.glossary_terms_extracted = @ + CountIf(chunks, is_glossary)]

RECURSIVE LoadFrom(_, _, _, _, _, _, _)
\* the loop of load_documents_enhanced over zip(file_paths, source_ids), from
\* position i: acc holds all_chunks, the processor's monitor, the statistics
\* and, per document, how process_document ended
LoadFrom(p, acc, fsys, file_paths, source_ids, faults, i) ==
    IF i > Min(Len(file_paths), Len(source_ids)) THEN acc
    ELSE LoadFrom(p,
             (LET d == ProcessDocument(p, acc.monitor, fsys[file_paths[i]],
                                       source_ids[i], faults[i])
              IN IF d.raised
                 THEN [acc EXCEPT !.monitor = d.monitor,
                                  !.stats.errors = @ + 1,
                                  !.outcomes = Append(@, "raised")]
                 ELSE [acc EXCEPT !.all_chunks = @ \o d.ret,
                                  !.monitor = d.monitor,
                                  !.stats.documents_processed = @ + 1,
                                  !.outcomes = Append(@, d.outcome)]),
             fsys, file_paths, source_ids, faults, i + 1)

\* the statistics update and the return of load_documents_enhanced, once the
\* loop has ended with `done`
FinishLoad(r, done) ==
    [ret |-> done.all_chunks,
     rag |-> [r EXCEPT !.enhanced_chunks = done.all_chunks,
                       !.processing_stats =
                           UpdateContentStats(
                               [done.stats EXCEPT !.chunks_created = Len(done.all_chunks)],
                               done.all_chunks)],
     monitor |-> done.monitor,
     outcomes |-> done.outcomes,
     basic |-> FALSE]

LoadDocumentsEnhanced(r, p, m, fsys, file_paths, source_ids, faults) ==
    IF ~r.enable_enhanced_processing \/ ~r.enhanced_processor
    THEN [ret |-> <<>>, rag |-> r, monitor |-> m, outcomes |-> <<>>, basic |-> TRUE]
    ELSE FinishLoad(r, LoadFrom(p, [all_chunks |-> <<>>, monitor |-> m,
                                    stats |-> r.processing_stats, outcomes |-> <<>>],
                                fsys, file_paths, source_ids, faults, 1))

----------------------------------------------------------------------------
(* The sequential specification: one processor, calls made one at a time *)

Paths == {"missing", "denied", "empty", "doc"}

FileDocs ==
    { <<"a", " ", "a">>,
      <<"$", "a", "$", "$", "a", "$">>,
      <<"<", "a", ">", "[", "a", "]">>,
      <<"a", " ", ":", "a">>,
      <<"$", "<", "$">>,
      <<"$", "$", "a">> }

FileSystem(d) ==
    [path \in Paths |->
        CASE path = "missing" -> [kind |-> "missing", data |-> <<>>]
          [] path = "denied"  -> [kind |-> "denied", data |-> <<>>]
          [] path = "empty"   -> [kind |-> "file", data |-> <<>>]
          [] path = "doc"     -> [kind |-> "file", data |-> d]]

\* <<chunk_size, overlap percent>>
ProcChunking == { <<2, 50>>, <<4, 0>> }

FaultChoices ==
    {[chunker |-> TRUE, stage |-> {}]}
    \cup { [chunker |-> FALSE, stage |-> s] : s \in SUBSET (1..MaxFaultIdx) }

\* what one position of a batch may be: <<path, faults>>
BatchItems ==
    { <<"missing", NoFaults>>, <<"doc", NoFaults>>,
      <<"doc", [chunker |-> TRUE, stage |-> {}]>> }

Readable(fsys, path) == fsys[path].kind = "file" /\ fsys[path].data # <<>>

\* the source id callers derive from a path (its stem)
SourceIdOf(path) == path

\* (enable_mathematical_processing, enable_asset_processing,
\*  enable_glossary_extraction) given to the constructor
FlagChoices ==
    { <<TRUE, TRUE, TRUE>>, <<FALSE, TRUE, TRUE>>, <<TRUE, FALSE, TRUE>>,
      <<TRUE, TRUE, FALSE>> }

IdleWorkers == [w \in {} |-> 0]

Init ==
    /\ fs \in { FileSystem(d) : d \in FileDocs }
    /\ proc \in { NewProcessor(c[1], c[2], f[1], f[2], f[3]) :
                    c \in ProcChunking, f \in FlagChoices }
    /\ monitor = NewMonitor(MaxHistory)
    /\ last = [op |-> "none", n |-> 0]
    /\ cin = <<>>
    /\ cout = <<>>
    /\ wk = IdleWorkers
    /\ wmon = IdleWorkers
    /\ arrived = <<>>
    /\ requested = <<>>
    /\ rag = <<>>
    /\ eq = <<>>
    /\ eqres = <<>>
    /\ config = <<>>
    /\ validator = <<>>
    /\ arg = <<>>
    /\ ret = <<>>

process_document ==
    /\ last.n < MaxOps
    /\ \E path \in Paths, faults \in FaultChoices :
         /\ ~Readable(fs, path) => faults = NoFaults
         /\ \E r \in {ProcessDocument(proc, monitor, fs[path], SourceIdOf(path), faults)} :
               /\ monitor' = r.monitor
               /\ last' = [op |-> "process_document", n |-> last.n + 1,
                           path |-> path, source_id |-> SourceIdOf(path), faults |-> faults,
                           pre |-> monitor, ret |-> r.ret, raised |-> r.raised,
                           stage_caught |-> r.stage_caught, outcome |-> r.outcome]
    /\ UNCHANGED <<config, validator, arg, ret, fs, proc, cin, cout, wk, wmon, arrived, requested,
                 rag, eq, eqres>>

process_multiple_documents ==
    /\ last.n < MaxOps
    /\ \E n \in 0..MaxBatch :
         \E items \in [1..n -> BatchItems] :
           LET file_paths == [i \in 1..n |-> items[i][1]]
               source_ids == [i \in 1..n |-> SourceIdOf(items[i][1])]
               faults == [i \in 1..n |-> items[i][2]]
           IN \E r \in {ProcessMultipleDocuments(proc, monitor, fs, file_paths,
                                                 source_ids, faults)} :
                 /\ monitor' = r.monitor
                 /\ last' = [op |-> "process_multiple_documents", n |-> last.n + 1,
                             file_paths |-> file_paths, source_ids |-> source_ids,
                             faults |-> faults, pre |-> monitor, ret |-> r.ret,
                             raised |-> r.raised, processed |-> r.processed]
    /\ UNCHANGED <<config, validator, arg, ret, fs, proc, cin, cout, wk, wmon, arrived, requested,
                 rag, eq, eqres>>

Next == process_document \/ process_multiple_documents

Spec == Init /\ [][Next]_vars

----------------------------------------------------------------------------
(* Properties of the sequential specification *)

IsCall(op) == last.op = op

\* the chunks as they leave the chunker in the last process_document call
BaseChunks == ChunkDocument(proc.chunker, fs[last.path].data, last.source_id)

HasNoPayload(chunk) ==
    /\ chunk.mathematical_content = NoPayload
    /\ chunk.asset_content = NoPayload
    /\ chunk.glossary_content = NoPayload

\* C1: for a zero-byte, missing or unreadable file process_document returns
\* an empty list, does not raise, and the monitor's error count grows by at
\* most one.
C1_GracefulDegradation ==
    (IsCall("process_document") /\ ~Readable(fs, last.path)) =>
        /\ last.ret = <<>>
        /\ ~last.raised
        /\ monitor.error_count >= last.pre.error_count
        /\ monitor.error_count - last.pre.error_count <= 1

\* a zero-byte file and a missing file processed, the latter after an
\* earlier failure was counted
C1_Witness ==
    /\ IsCall("process_document")
    /\ last.path \in {"empty", "missing", "denied"}
    /\ last.pre.error_count = 1
    /\ last.ret = <<>>

\* C2: process_multiple_documents returns the concatenation, in input order,
\* of what process_document returns for each (path, source id) pair; a failed
\* document contributes nothing and every later document is still processed.
C2_BatchNeverAborts ==
    IsCall("process_multiple_documents") =>
        LET n == Len(last.file_paths)
            each == [i \in 1..n |->
                        ProcessDocument(proc, last.pre, fs[last.file_paths[i]],
                                        last.source_ids[i], last.faults[i])]
        IN /\ ~last.raised
           /\ last.processed = n
           /\ last.ret = Concat([i \in 1..n |-> each[i].ret])
           /\ \A i \in 1..n : each[i].outcome # "done" => each[i].ret = <<>>
           /\ (monitor.success_count + monitor.error_count)
                - (last.pre.success_count + last.pre.error_count)
              = Cardinality({ i \in 1..n : each[i].outcome # "empty" })

\* a batch whose first document fails and whose second yields chunks
C2_Witness ==
    /\ IsCall("process_multiple_documents")
    /\ Len(last.file_paths) = 2
    /\ ~Readable(fs, last.file_paths[1]) \/ last.faults[1].chunker
    /\ last.ret # <<>>

\* C3 (as claimed): a failed READ is recorded with the monitor: error_count
\* is one higher, the error log has an entry, and the call returns [].
C3_ReadFailureRecorded ==
    (IsCall("process_document") /\ fs[last.path].kind # "file") =>
        /\ last.ret = <<>>
        /\ monitor.error_count = last.pre.error_count + 1
        /\ monitor.error_history # <<>>

\* C4: a chunk whose specialised stage raises stays in the list at its
\* position with its base type and confidence and no payload; the other
\* chunks are enriched as usual.
C4_StageFailureKeepsChunk ==
    (IsCall("process_document") /\ last.outcome = "done") =>
        /\ Len(last.ret) = Len(BaseChunks)
        /\ \A i \in 1..Len(last.ret) :
             /\ last.ret[i].text = BaseChunks[i].text
             /\ last.ret[i].content_type = BaseChunks[i].content_type
             /\ last.ret[i].confidence = BaseChunks[i].confidence
             /\ i \in last.faults.stage => HasNoPayload(last.ret[i])
             /\ i \notin last.faults.stage =>
                  last.ret[i] = EnhanceChunk(proc, BaseChunks[i], FALSE).chunk

\* the stage raised on the first chunk and the second chunk got its payload
C4_Witness ==
    /\ IsCall("process_document")
    /\ last.outcome = "done"
    /\ last.stage_caught >= 1
    /\ 1 \in last.faults.stage
    /\ Len(last.ret) >= 2
    /\ HasNoPayload(last.ret[1])
    /\ ~HasNoPayload(last.ret[2])

\* C5 (as claimed): each exception caught from a specialised stage raises
\* the monitor's error_count by one, and none reaches the caller.
C5_StageErrorsCounted ==
    (IsCall("process_document") /\ last.outcome = "done") =>
        /\ ~last.raised
        /\ monitor.error_count = last.pre.error_count + last.stage_caught

\* C6: in a returned list mathematical content sits only on EQUATION chunks,
\* asset content only on FIGURE or TABLE chunks, glossary content only on
\* DEFINITION chunks.
C6_PayloadMatchesType ==
    (IsCall("process_document") \/ IsCall("process_multiple_documents")) =>
        \A i \in 1..Len(last.ret) :
            LET c == last.ret[i]
            IN /\ c.mathematical_content # NoPayload => c.content_type = "EQUATION"
               /\ c.asset_content # NoPayload => c.content_type \in {"FIGURE", "TABLE"}
               /\ c.glossary_content # NoPayload => c.content_type = "DEFINITION"

\* an equation chunk that carries a figure anchor was enriched with
\* mathematical content
C6_Witness ==
    /\ IsCall("process_document")
    /\ \E i \in 1..Len(last.ret) :
         /\ last.ret[i].content_type = "EQUATION"
         /\ Has(last.ret[i].text, "<")
         /\ last.ret[i].mathematical_content # NoPayload
    /\ proc.enable_asset_processing

\* C9: the chunk indices of a returned list run 0, 1, 2, ... without gap or
\* repetition, and enrichment keeps every chunk of the chunker, once, in
\* order.
C9_IndicesSequential ==
    IsCall("process_document") =>
        /\ \A i \in 1..Len(last.ret) : last.ret[i].chunk_index = i - 1
        /\ last.outcome = "done" =>
             /\ Len(last.ret) = Len(BaseChunks)
             /\ \A i \in 1..Len(last.ret) : last.ret[i].id = BaseChunks[i].id

\* several chunks returned, one of them after its stage raised
C9_Witness ==
    /\ IsCall("process_document")
    /\ Len(last.ret) >= 2
    /\ last.stage_caught >= 1
    /\ last.ret[Len(last.ret)].chunk_index = Len(last.ret) - 1

StageNames == {"math", "asset", "glossary"}

\* the content types _enhance_chunk hands to each stage
StageTypes(stage) ==
    CASE stage = "math"     -> {"EQUATION"}
      [] stage = "asset"    -> {"FIGURE", "TABLE"}
      [] stage = "glossary" -> {"DEFINITION"}

\* the processor the constructor builds from p's arguments with one enable
\* flag off
WithStageDisabled(p, stage) ==
    NewProcessor(p.chunk_size, p.overlap_pct,
                 p.enable_mathematical_processing /\ stage # "math",
                 p.enable_asset_processing /\ stage # "asset",
                 p.enable_glossary_extraction /\ stage # "glossary")

AllStagesEnabled(p) ==
    /\ p.enable_mathematical_processing
    /\ p.enable_asset_processing
    /\ p.enable_glossary_extraction

\* the chunk positions at which _enhance_chunk calls the stage
StagePositions(chunks, stage) ==
    { i \in 1..Len(chunks) : chunks[i].content_type \in StageTypes(stage) }

\* the last call was process_document on a readable document, every stage
\* enabled, with `stage` raising on each of its calls and no other fault
RaisedOnEveryCall(stage) ==
    /\ IsCall("process_document")
    /\ Readable(fs, last.path)
    /\ AllStagesEnabled(proc)
    /\ ~last.faults.chunker
    /\ last.faults.stage = StagePositions(BaseChunks, stage)

----------------------------------------------------------------------------
(* The concurrent specification: workers that each own a processor (and so  *)
(* its monitor) and run process_document step by step, interleaved.         *)

Workers == {1, 2}

\* variant: the processors are handed one monitor
SharedMonitor(w) == 1

\* __init__ line 62: every processor constructs its own monitor
MonitorOf(w) == w

ConcPaths == {"missing", "doc", "doc2"}

ConcDocPairs ==
    { << <<"$", "a", "$", "$", "a", "$">>, <<"<", "a", ">", "[", "a", "]">> >>,
      << <<"a", " ", ":", "a">>, <<"a", " ", "a">> >>,
      << <<"$", "<", "$">>, <<"a", " ", ":", "a">> >> }

ConcFileSystem(d) ==
    [path \in ConcPaths |->
        CASE path = "missing" -> [kind |-> "missing", data |-> <<>>]
          [] path = "doc"     -> [kind |-> "file", data |-> d[1]]
          [] path = "doc2"    -> [kind |-> "file", data |-> d[2]]]

IdleWorker ==
    [pc |-> "idle", path |-> "", faults |-> NoFaults, concurrent |-> FALSE,
     pre |-> NewMonitor(MaxHistory), content |-> <<>>, chunks |-> <<>>, i |-> 0,
     acc |-> NoEnhanced, ret |-> <<>>]

InitConc ==
    /\ fs \in { ConcFileSystem(d) : d \in ConcDocPairs }
    /\ proc \in { NewProcessor(c[1], c[2], TRUE, TRUE, TRUE) : c \in ProcChunking }
    /\ wk = [w \in Workers |-> IdleWorker]
    /\ wmon = [w \in Workers |-> NewMonitor(MaxHistory)]
    /\ monitor = NewMonitor(MaxHistory)
    /\ last = [op |-> "none", n |-> 0]
    /\ cin = <<>>
    /\ cout = <<>>
    /\ arrived = <<>>
    /\ requested = <<>>
    /\ rag = <<>>
    /\ eq = <<>>
    /\ eqres = <<>>
    /\ config = <<>>
    /\ validator = <<>>
    /\ arg = <<>>
    /\ ret = <<>>

Running(w) == wk[w].pc \notin {"idle", "done"}

\* process_document is entered: a document no other worker has taken
WStart(w) ==
    /\ wk[w].pc = "idle"
    /\ \E path \in ConcPaths, faults \in FaultChoices :
         /\ \A v \in Workers \ {w} : wk[v].path # path
         /\ ~Readable(fs, path) => faults = NoFaults
         /\ wk' = [wk EXCEPT ![w] =
                     [@ EXCEPT !.pc = "read", !.path = path, !.faults = faults,
                               !.pre = wmon[MonitorOf(w)],
                               !.concurrent = \E v \in Workers \ {w} : Running(v)]]
    /\ UNCHANGED <<config, validator, arg, ret, wmon, fs, proc, monitor, last, cin, cout, arrived, requested,
                 rag, eq, eqres>>

\* READ (lines 82-85)
WRead(w) ==
    /\ wk[w].pc = "read"
    /\ LET content == ReadDocument(fs[wk[w].path])
       IN wk' = [wk EXCEPT ![w] =
                   IF content = <<>>
                   THEN [@ EXCEPT !.pc = "done", !.ret = <<>>]
                   ELSE [@ EXCEPT !.pc = "chunk", !.content = content]]
    /\ UNCHANGED <<config, validator, arg, ret, wmon, fs, proc, monitor, last, cin, cout, arrived, requested,
                 rag, eq, eqres>>

\* CHUNK (line 88)
WChunk(w) ==
    /\ wk[w].pc = "chunk"
    /\ wk' = [wk EXCEPT ![w] =
                IF wk[w].faults.chunker
                THEN [@ EXCEPT !.pc = "except"]
                ELSE [@ EXCEPT !.pc = "enrich", !.i = 1, !.acc = NoEnhanced,
                               !.chunks = ChunkDocument(proc.chunker, wk[w].content,
                                                        SourceIdOf(wk[w].path))]]
    /\ UNCHANGED <<config, validator, arg, ret, wmon, fs, proc, monitor, last, cin, cout, arrived, requested,
                 rag, eq, eqres>>

\* ENRICH, one chunk (lines 92-95)
WEnrich(w) ==
    /\ wk[w].pc = "enrich"
    /\ wk[w].i <= Len(wk[w].chunks)
    /\ wk' = [wk EXCEPT ![w] =
                [@ EXCEPT !.i = @ + 1,
                          !.acc = EnhanceStep(proc, wk[w].chunks[wk[w].i],
                                              wk[w].i \in wk[w].faults.stage, @)]]
    /\ UNCHANGED <<config, validator, arg, ret, wmon, fs, proc, monitor, last, cin, cout, arrived, requested,
                 rag, eq, eqres>>

\* AGGREGATE (lines 98-101)
WAggregate(w) ==
    /\ wk[w].pc = "enrich"
    /\ wk[w].i > Len(wk[w].chunks)
    /\ wmon' = [wmon EXCEPT ![MonitorOf(w)] =
                   record_success(@, "document_processing", 100)]
    /\ wk' = [wk EXCEPT ![w] = [@ EXCEPT !.pc = "done", !.ret = wk[w].acc.chunks]]
    /\ UNCHANGED <<config, validator, arg, ret, fs, proc, monitor, last, cin, cout, arrived, requested,
                 rag, eq, eqres>>

\* the except branch (lines 103-106)
WExcept(w) ==
    /\ wk[w].pc = "except"
    /\ wmon' = [wmon EXCEPT ![MonitorOf(w)] =
                   record_error(@, "document_processing", "chunker")]
    /\ wk' = [wk EXCEPT ![w] = [@ EXCEPT !.pc = "done", !.ret = <<>>]]
    /\ UNCHANGED <<config, validator, arg, ret, fs, proc, monitor, last, cin, cout, arrived, requested,
                 rag, eq, eqres>>

NextConc ==
    \E w \in Workers :
        \/ WStart(w)
        \/ WRead(w)
        \/ WChunk(w)
        \/ WEnrich(w)
        \/ WAggregate(w)
        \/ WExcept(w)

SpecConc == InitConc /\ [][NextConc]_vars

\* C10: under every interleaving a worker's process_document returns the
\* list, and leaves its processor's monitor in the state, that the same call
\* yields when it runs alone.
C10_WorkersIndependent ==
    \A w \in Workers :
        wk[w].pc = "done" =>
            LET alone == ProcessDocument(proc, wk[w].pre, fs[wk[w].path],
                                         SourceIdOf(wk[w].path), wk[w].faults)
            IN /\ wk[w].ret = alone.ret
               /\ wmon[MonitorOf(w)] = alone.monitor

\* two calls that overlapped in time, both finished, both with chunks
C10_Witness ==
    /\ \A w \in Workers : wk[w].pc = "done" /\ wk[w].ret # <<>>
    /\ \E w \in Workers : wk[w].concurrent

----------------------------------------------------------------------------
(* The chunker specification: chunk_document called on its own, as          *)
(* process_document (line 88) and the API server do.                        *)

OverlapPcts == {0, 50}

ChunkerInputs ==
    [text : DocsUpTo(MaxSegs),
     source_id : {"doc"},
     chunker : { NewProcessor(size, pct, em, ea, TRUE).chunker :
                   size \in 1..MaxChunkSize, pct \in OverlapPcts,
                   em \in BOOLEAN, ea \in BOOLEAN }]

InitChunker ==
    /\ cin \in ChunkerInputs
    /\ cout = [called |-> FALSE, chunks |-> <<>>]
    /\ fs = FileSystem(<<>>)
    /\ proc = NewProcessor(4, 0, TRUE, TRUE, TRUE)
    /\ monitor = NewMonitor(MaxHistory)
    /\ last = [op |-> "none", n |-> 0]
    /\ wk = IdleWorkers
    /\ wmon = IdleWorkers
    /\ arrived = <<>>
    /\ requested = <<>>
    /\ rag = <<>>
    /\ eq = <<>>
    /\ eqres = <<>>
    /\ config = <<>>
    /\ validator = <<>>
    /\ arg = <<>>
    /\ ret = <<>>

chunk_document ==
    /\ ~cout.called
    /\ cout' = [called |-> TRUE,
                chunks |-> ChunkDocument(cin.chunker, cin.text, cin.source_id)]
    /\ UNCHANGED <<config, validator, arg, ret, cin, fs, proc, monitor, last, wk, wmon, arrived, requested,
                 rag, eq, eqres>>

NextChunker == chunk_document

SpecChunker == InitChunker /\ [][NextChunker]_vars

\* the atomic spans the chunker detected in its input
CinSpans ==
    DetectedSpans(cin.text, cin.chunker.preserve_math, cin.chunker.preserve_figures,
                  cin.chunker.preserve_tables)

\* C7: the chunk texts, in index order and without the overlap carried into
\* each chunk's start, concatenate to the document up to whitespace
\* normalisation.
C7_LosslessReconstruction ==
    cout.called =>
        NormalizeWs(Reconstruct(cout.chunks)) = NormalizeWs(cin.text)

\* a document with whitespace to normalise, cut into several chunks, one of
\* which carries overlap
C7_Witness ==
    /\ cout.called
    /\ Len(cout.chunks) >= 3
    /\ \E i \in 1..Len(cout.chunks) : cout.chunks[i].overlap > 0
    /\ NormalizeWs(cin.text) # cin.text

----------------------------------------------------------------------------
(* The monitor on its own: any sequence of calls on one monitor *)

ThresholdNames == DOMAIN DefaultThresholds

\* a name a caller may try for the lower (warning) error-rate threshold; the
\* monitor's table has no entry for it
WarningName == "warning_error_rate"

\* values handed to set_threshold
ThresholdValues == {3, 10000}

ResponseTimes == {100, 9000}

ErrorMessages == {"e1", "e2"}

\* what psutil may hand back: a usage in percent, or an exception
UsageSamples ==
    { [ok |-> TRUE, usage_percent |-> u] : u \in {50, 90} }
    \cup { [ok |-> FALSE, usage_percent |-> 0] }

InitMonitor ==
    /\ monitor \in { NewMonitor(h) : h \in 1..MaxHistory }
    /\ last = [op |-> "none", n |-> 0]
    /\ arrived = [response_times |-> <<>>, error_history |-> <<>>,
                  memory_usage |-> <<>>, cpu_usage |-> <<>>]
    /\ requested = [k \in ThresholdNames \cup {WarningName} |->
                      IF k = WarningName THEN WarningErrorRate
                      ELSE DefaultThresholds[k]]
    /\ fs = FileSystem(<<>>)
    /\ proc = NewProcessor(4, 0, TRUE, TRUE, TRUE)
    /\ cin = <<>>
    /\ cout = <<>>
    /\ wk = IdleWorkers
    /\ wmon = IdleWorkers
    /\ rag = <<>>
    /\ eq = <<>>
    /\ eqres = <<>>
    /\ config = <<>>
    /\ validator = <<>>
    /\ arg = <<>>
    /\ ret = <<>>

do_record_success ==
    /\ last.n < MaxMonOps
    /\ \E response_time \in ResponseTimes :
         /\ monitor' = record_success(monitor, "op", response_time)
         /\ arrived' = [arrived EXCEPT !.response_times = Append(@, response_time)]
    /\ last' = [op |-> "record_success", n |-> last.n + 1]
    /\ UNCHANGED <<config, validator, arg, ret, fs, proc, cin, cout, wk, wmon, requested, rag, eq, eqres>>

do_record_error ==
    /\ last.n < MaxMonOps
    /\ \E error_message \in ErrorMessages :
         /\ monitor' = record_error(monitor, "op", error_message)
         /\ arrived' = [arrived EXCEPT !.error_history =
                           Append(@, [operation |-> "op", error |-> error_message])]
    /\ last' = [op |-> "record_error", n |-> last.n + 1]
    /\ UNCHANGED <<config, validator, arg, ret, fs, proc, cin, cout, wk, wmon, requested, rag, eq, eqres>>

do_record_memory_usage ==
    /\ last.n < MaxMonOps
    /\ \E sample \in UsageSamples :
         /\ monitor' = record_memory_usage(monitor, sample)
         /\ arrived' = IF sample.ok
                       THEN [arrived EXCEPT !.memory_usage =
                               Append(@, [usage_percent |-> sample.usage_percent])]
                       ELSE arrived
    /\ last' = [op |-> "record_memory_usage", n |-> last.n + 1]
    /\ UNCHANGED <<config, validator, arg, ret, fs, proc, cin, cout, wk, wmon, requested, rag, eq, eqres>>

do_record_cpu_usage ==
    /\ last.n < MaxMonOps
    /\ \E sample \in UsageSamples :
         /\ monitor' = record_cpu_usage(monitor, sample)
         /\ arrived' = IF sample.ok
                       THEN [arrived EXCEPT !.cpu_usage =
                               Append(@, [usage_percent |-> sample.usage_percent])]
                       ELSE arrived
    /\ last' = [op |-> "record_cpu_usage", n |-> last.n + 1]
    /\ UNCHANGED <<config, validator, arg, ret, fs, proc, cin, cout, wk, wmon, requested, rag, eq, eqres>>

do_set_threshold ==
    /\ last.n < MaxMonOps
    /\ \E metric \in ThresholdNames \cup {WarningName}, value \in ThresholdValues :
         /\ monitor' = set_threshold(monitor, metric, value)
         /\ requested' = [requested EXCEPT ![metric] = value]
    /\ last' = [op |-> "set_threshold", n |-> last.n + 1]
    /\ UNCHANGED <<config, validator, arg, ret, fs, proc, cin, cout, wk, wmon, arrived, rag, eq, eqres>>

do_check_health ==
    /\ last.n < MaxMonOps
    /\ \E h \in {check_health(monitor)} :
         last' = [op |-> "check_health", n |-> last.n + 1, status |-> h.status,
                  health_issues |-> h.health_issues]
    /\ UNCHANGED <<config, validator, arg, ret, fs, proc, monitor, cin, cout, wk, wmon, arrived, requested,
                   rag, eq, eqres>>

NextMonitor ==
    \/ do_record_success
    \/ do_record_error
    \/ do_record_memory_usage
    \/ do_record_cpu_usage
    \/ do_set_threshold
    \/ do_check_health

SpecMonitor == InitMonitor /\ [][NextMonitor]_vars

\* the error rate of the monitor, in percent, is above pct
ErrorRateAbove(pct) ==
    /\ monitor.success_count + monitor.error_count > 0
    /\ 100 * monitor.error_count > pct * (monitor.success_count + monitor.error_count)

\* at least one of the four limits in `limits` is exceeded by the monitor
SomeLimitExceeded(limits) ==
    \/ /\ monitor.response_times # <<>>
       /\ SumSeq(monitor.response_times)
            > limits.max_response_time * Len(monitor.response_times)
    \/ ErrorRateAbove(limits.max_error_rate)
    \/ /\ monitor.memory_usage # <<>>
       /\ monitor.memory_usage[Len(monitor.memory_usage)].usage_percent
            > limits.max_memory_usage
    \/ /\ monitor.cpu_usage # <<>>
       /\ monitor.cpu_usage[Len(monitor.cpu_usage)].usage_percent
            > limits.max_cpu_usage

\* the status the three-way rule gives under the limits and the warning level
StatusUnder(limits, warning) ==
    IF SomeLimitExceeded(limits) THEN "unhealthy"
    ELSE IF ErrorRateAbove(warning) THEN "degraded"
    ELSE "healthy"

\* C11: check_health reports "unhealthy" exactly when a configured threshold
\* (average response time, error rate, memory, CPU) is exceeded, otherwise
\* "degraded" exactly when the error rate is above the warning level,
\* otherwise "healthy".
C11_HealthDetermination ==
    IsCall("check_health") =>
        /\ last.status \in {"unhealthy", "degraded", "healthy"}
        /\ (last.status = "unhealthy") <=> SomeLimitExceeded(monitor.thresholds)
        /\ ~SomeLimitExceeded(monitor.thresholds) =>
              ((last.status = "degraded") <=> ErrorRateAbove(WarningErrorRate))

\* a check that answered "degraded": no limit exceeded, error rate above
\* the warning level
C11_Witness ==
    /\ IsCall("check_health")
    /\ last.status = "degraded"
    /\ monitor.error_count > 0

\* C12 (as claimed): every level the health decision compares against can be
\* changed at run time: check_health decides with the values last asked for
\* through set_threshold, the warning level included.
C12_ThresholdsConfigurable ==
    IsCall("check_health") =>
        last.status = StatusUnder([k \in ThresholdNames |-> requested[k]],
                                  requested[WarningName])

\* the last min(n, |log|) entries of log
LastEntries(log, n) == SubSeq(log, Len(log) - Min(n, Len(log)) + 1, Len(log))

Histories == {"response_times", "error_history", "memory_usage", "cpu_usage"}

\* C13: each history of the monitor holds at most max_history entries, and
\* they are the most recent arrivals in arrival order.
C13_HistoriesBounded ==
    \A h \in Histories :
        /\ Len(monitor[h]) <= monitor.max_history
        /\ monitor[h] = LastEntries(arrived[h], monitor.max_history)

\* a history that has evicted an entry different from the ones it kept
C13_Witness ==
    \E h \in Histories :
        /\ Len(arrived[h]) > monitor.max_history
        /\ Len(monitor[h]) = monitor.max_history
        /\ arrived[h][1] # arrived[h][Len(arrived[h])]

----------------------------------------------------------------------------
(* SciRagEnhanced: a sequence of load_documents_enhanced calls *)

InitRag ==
    /\ fs \in { FileSystem(d) : d \in FileDocs }
    /\ proc \in { NewProcessor(c[1], c[2], TRUE, TRUE, TRUE) : c \in ProcChunking }
    /\ monitor = NewMonitor(MaxHistory)
    /\ rag \in { NewSciRagEnhanced(b) : b \in BOOLEAN }
    /\ last = [op |-> "none", n |-> 0, produced |-> 0]
    /\ cin = <<>>
    /\ cout = <<>>
    /\ wk = IdleWorkers
    /\ wmon = IdleWorkers
    /\ arrived = <<>>
    /\ requested = <<>>
    /\ eq = <<>>
    /\ eqres = <<>>
    /\ config = <<>>
    /\ validator = <<>>
    /\ arg = <<>>
    /\ ret = <<>>

\* last.produced is the number of chunks all calls so far have returned
load_documents_enhanced ==
    /\ rag # <<>>
    /\ last.n < MaxLoads
    /\ \E n \in 0..MaxBatch :
         \E items \in [1..n -> BatchItems] :
           LET file_paths == [i \in 1..n |-> items[i][1]]
               source_ids == [i \in 1..n |-> SourceIdOf(items[i][1])]
               faults == [i \in 1..n |-> items[i][2]]
           IN \E r \in {LoadDocumentsEnhanced(rag, proc, monitor, fs, file_paths,
                                              source_ids, faults)} :
                 /\ rag' = r.rag
                 /\ monitor' = r.monitor
                 /\ last' = [op |-> "load_documents_enhanced", n |-> last.n + 1,
                             file_paths |-> file_paths, pre |-> rag.processing_stats,
                             ret |-> r.ret, outcomes |-> r.outcomes, basic |-> r.basic,
                             produced |-> last.produced + Len(r.ret)]
    /\ UNCHANGED <<config, validator, arg, ret, fs, proc, cin, cout, wk, wmon, arrived, requested, eq, eqres>>

NextRag == load_documents_enhanced

SpecRag == InitRag /\ [][NextRag]_vars

Succeeded(outcome) == outcome = "done"

Failed(outcome) == outcome # "done"

\* C14 (as claimed): after load_documents_enhanced, documents_processed has
\* grown by the number of documents processed successfully and errors by
\* the number of documents that failed.
C14_StatsReflectOutcomes ==
    (IsCall("load_documents_enhanced") /\ ~last.basic) =>
        /\ rag.processing_stats.documents_processed
             = last.pre.documents_processed + CountIf(last.outcomes, Succeeded)
        /\ rag.processing_stats.errors
             = last.pre.errors + CountIf(last.outcomes, Failed)

\* C15 (as claimed): chunks_created equals the number of chunks produced by
\* all load_documents_enhanced calls so far.
C15_ChunksCreatedCumulative ==
    (IsCall("load_documents_enhanced") /\ ~last.basic) =>
        rag.processing_stats.chunks_created = last.produced

----------------------------------------------------------------------------
(* MathematicalProcessor.process_equation                                   *)
(*                                                                          *)
(* Equation markup is a sequence of one-character strings over its own      *)
(* alphabet:                                                                *)
(*   "\\"     the backslash                                                 *)
(*   "x"      a letter                                                      *)
(*   "p"      the name of a Greek letter: "\\" "p" is a command such as \pi  *)
(*   "f"      the name frac: "\\" "f" "{" .. "}" "{" .. "}" is \frac{..}{..}  *)
(*   "s" "i" "r" "n" "b"  the names sum, int, sqrt, in and subset: the      *)
(*            text "in" occurs inside the name int as well                  *)
(*   "1"      a digit                                                       *)
(*   "."      the decimal point                                             *)
(*   "+" "/" "="  operators                                                 *)
(*   "{" "}" "(" ")"  brackets                                              *)
(*   " "      whitespace                                                    *)
(*   "$"      a character of no token class (the math delimiter)            *)
(* The optional math_canonical field of the result is kept as a flag.       *)

IsLetter(c) == c \in {"x", "p", "f", "s", "i", "r", "n", "b"}

IsDigit(c) == c = "1"

IsWordChar(c) == IsLetter(c) \/ IsDigit(c)

\* the characters of the tokenizer's closed operator/bracket class
IsSymbol(c) == c \in {"+", "/", "=", "(", ")", "{", "}", "\\"}

\* the last position of the longest run of characters satisfying Test that
\* starts at i (i - 1 if there is none)
RunEnd(text, i, Test(_)) ==
    SetMax({ j \in (i - 1)..Len(text) : \A k \in i..j : Test(text[k]) })

NotCloseBrace(c) == c # "}"

\* where \frac\{([^}]+)\}\{([^}]+)\} matches at i: the two groups
FracMatch(text, i) ==
    LET at(k) == IF k <= Len(text) THEN text[k] ELSE "end"
        e1 == RunEnd(text, i + 3, NotCloseBrace)
        e2 == RunEnd(text, e1 + 3, NotCloseBrace)
    IN IF /\ at(i) = "\\" /\ at(i + 1) = "f" /\ at(i + 2) = "{"
          /\ e1 >= i + 3 /\ at(e1 + 1) = "}" /\ at(e1 + 2) = "{"
          /\ e2 >= e1 + 3 /\ at(e2 + 1) = "}"
       THEN [found |-> TRUE, g1 |-> SubSeq(text, i + 3, e1),
             g2 |-> SubSeq(text, e1 + 3, e2), next |-> e2 + 2]
       ELSE [found |-> FALSE, g1 |-> <<>>, g2 |-> <<>>, next |-> i + 1]

RECURSIVE FracRewrite(_, _, _)
\* re.sub of the \frac pattern by (\1)/(\2), left to right from i
FracRewrite(text, i, acc) ==
    IF i > Len(text) THEN acc
    ELSE LET m == FracMatch(text, i)
         IN IF m.found
            THEN FracRewrite(text, m.next,
                             acc \o <<"(">> \o m.g1 \o <<")", "/", "(">> \o m.g2 \o <<")">>)
            ELSE FracRewrite(text, i + 1, Append(acc, text[i]))

\* where \sqrt\{([^}]+)\} matches at i: the group
SqrtMatch(text, i) ==
    LET at(k) == IF k <= Len(text) THEN text[k] ELSE "end"
        e1 == RunEnd(text, i + 3, NotCloseBrace)
    IN IF /\ at(i) = "\\" /\ at(i + 1) = "r" /\ at(i + 2) = "{"
          /\ e1 >= i + 3 /\ at(e1 + 1) = "}"
       THEN [found |-> TRUE, g1 |-> SubSeq(text, i + 3, e1), next |-> e1 + 2]
       ELSE [found |-> FALSE, g1 |-> <<>>, next |-> i + 1]

RECURSIVE SqrtRewrite(_, _, _)
\* re.sub of the \sqrt pattern by sqrt(\1), left to right from i
SqrtRewrite(text, i, acc) ==
    IF i > Len(text) THEN acc
    ELSE LET m == SqrtMatch(text, i)
         IN IF m.found
            THEN SqrtRewrite(text, m.next, acc \o <<"r", "(">> \o m.g1 \o <<")">>)
            ELSE SqrtRewrite(text, i + 1, Append(acc, text[i]))

RECURSIVE GreekRewrite(_, _, _)
\* re.sub of a Greek command by its name: the backslash goes
GreekRewrite(text, i, acc) ==
    IF i > Len(text) THEN acc
    ELSE IF text[i] = "\\" /\ i < Len(text) /\ text[i + 1] = "p"
         THEN GreekRewrite(text, i + 2, Append(acc, "p"))
         ELSE GreekRewrite(text, i + 1, Append(acc, text[i]))

\* _normalize_latex: the \sum_ and \int_ patterns need "_" and "^", which
\* this alphabet does not have
NormalizeLatex(equation_tex) ==
    IF equation_tex = <<>> THEN <<>>
    ELSE Strip(GreekRewrite(
                   SqrtRewrite(FracRewrite(Strip(equation_tex), 1, <<>>), 1, <<>>),
                   1, <<>>))

\* the end of the number \d+\.?\d* that starts at i
NumberEnd(text, i) ==
    LET d == RunEnd(text, i, IsDigit)
    IN IF d < Len(text) /\ text[d + 1] = "." THEN RunEnd(text, d + 2, IsDigit) ELSE d

RECURSIVE TokenizeFrom(_, _, _)
\* re.findall of identifier | number | symbol, left to right from i
TokenizeFrom(text, i, acc) ==
    IF i > Len(text) THEN acc
    ELSE IF IsLetter(text[i])
         THEN LET j == RunEnd(text, i, IsWordChar)
              IN TokenizeFrom(text, j + 1, Append(acc, SubSeq(text, i, j)))
    ELSE IF IsDigit(text[i])
         THEN LET j == NumberEnd(text, i)
              IN TokenizeFrom(text, j + 1, Append(acc, SubSeq(text, i, j)))
    ELSE IF IsSymbol(text[i])
         THEN TokenizeFrom(text, i + 1, Append(acc, <<text[i]>>))
    ELSE TokenizeFrom(text, i + 1, acc)

\* _tokenize_equation
TokenizeEquation(equation) ==
    IF equation = <<>> THEN <<>> ELSE TokenizeFrom(equation, 1, <<>>)

RECURSIVE JoinBackwards(_)
\* variant: the tokens are joined last to first
JoinBackwards(tokens) ==
    IF tokens = <<>> THEN <<>>
    ELSE IF Len(tokens) = 1 THEN tokens[1]
    ELSE JoinBackwards(Tail(tokens)) \o <<" ">> \o Head(tokens)

RECURSIVE Join(_)
\* ' '.join(tokens)
Join(tokens) ==
    IF tokens = <<>> THEN <<>>
    ELSE IF Len(tokens) = 1 THEN tokens[1]
    ELSE Head(tokens) \o <<" ">> \o Join(Tail(tokens))

\* the default k of _generate_kgrams
DefaultK == 3

\* variant: fewer than k tokens give one k-gram of all of them
GenerateKgramsPadsShort(tokens, k) ==
    IF tokens = <<>> \/ k <= 0 THEN <<>>
    ELSE IF Len(tokens) < k THEN <<Join(tokens)>>
    ELSE [i \in 1..(Len(tokens) - k + 1) |-> Join(SubSeq(tokens, i, i + k - 1))]

\* _generate_kgrams
GenerateKgrams(tokens, k) ==
    IF tokens = <<>> \/ k <= 0 THEN <<>>
    ELSE [i \in 1..Max(Len(tokens) - k + 1, 0) |-> Join(SubSeq(tokens, i, i + k - 1))]

RECURSIVE CountCommands(_, _, _)
\* len(re.findall(r'\\[a-zA-Z]+', text)), from i
CountCommands(text, i, n) ==
    IF i > Len(text) THEN n
    ELSE IF text[i] = "\\" /\ i < Len(text) /\ IsLetter(text[i + 1])
         THEN CountCommands(text, RunEnd(text, i + 1, IsLetter) + 1, n + 1)
         ELSE CountCommands(text, i + 1, n)

RECURSIVE CountVariables(_, _, _)
\* len(re.findall(r'[a-zA-Z_][a-zA-Z0-9_]*', text)), from i
CountVariables(text, i, n) ==
    IF i > Len(text) THEN n
    ELSE IF IsLetter(text[i])
         THEN CountVariables(text, RunEnd(text, i, IsWordChar) + 1, n + 1)
         ELSE CountVariables(text, i + 1, n)

RECURSIVE CountNumbers(_, _, _)
\* len(re.findall(r'\d+\.?\d*', text)), from i
CountNumbers(text, i, n) ==
    IF i > Len(text) THEN n
    ELSE IF IsDigit(text[i])
         THEN CountNumbers(text, NumberEnd(text, i) + 1, n + 1)
         ELSE CountNumbers(text, i + 1, n)

CountChars(text, S) == Cardinality({ i \in 1..Len(text) : text[i] \in S })

\* the weights and the cap of _calculate_complexity, in tenths
ComplexityCap == 100

\* the weighted sum before the cap, in tenths
ComplexitySum(equation_tex) ==
    5 * CountCommands(equation_tex, 1, 0)
    + 3 * CountChars(equation_tex, {"+", "/", "="})
    + 2 * CountChars(equation_tex, {"(", ")", "{", "}"})
    + (CountVariables(equation_tex, 1, 0) + CountNumbers(equation_tex, 1, 0))

\* variant: the score wraps around at the cap
CalculateComplexityWrapping(equation_tex) ==
    IF equation_tex = <<>> THEN 0
    ELSE ComplexitySum(equation_tex) % ComplexityCap

\* _calculate_complexity, in tenths
CalculateComplexity(equation_tex) ==
    IF equation_tex = <<>> THEN 0
    ELSE Min(ComplexitySum(equation_tex), ComplexityCap)

\* "\\frac" or "/" occurs in the text
HasFraction(text) ==
    \/ Has(text, "/")
    \/ \E i \in 1..(Len(text) - 1) : text[i] = "\\" /\ text[i + 1] = "f"

\* 'sum' occurs in the text (so does "\\sum" whenever it occurs)
HasSum(text) == Has(text, "s")

\* 'int' occurs in the text
HasInt(text) == Has(text, "i")

\* 'sqrt' occurs in the text
HasSqrt(text) == Has(text, "r")

\* 'in' occurs in the text: as the name in, or inside the name int
HasIn(text) == Has(text, "n") \/ Has(text, "i")

\* 'subset' occurs in the text
HasSubset(text) == Has(text, "b")

\* variant: the "=" test comes before the summation test
ClassifyEquationTypeEqualsEarly(equation_tex) ==
    IF equation_tex = <<>> THEN "unknown"
    ELSE IF HasFraction(equation_tex) THEN "fraction"
    ELSE IF Has(equation_tex, "=") THEN "equation"
    ELSE IF HasSum(equation_tex) THEN "summation"
    ELSE IF HasInt(equation_tex) THEN "integral"
    ELSE IF HasSqrt(equation_tex) THEN "radical"
    ELSE IF HasIn(equation_tex) THEN "set_membership"
    ELSE IF HasSubset(equation_tex) THEN "set_relation"
    ELSE "expression"

\* _classify_equation_type
ClassifyEquationType(equation_tex) ==
    IF equation_tex = <<>> THEN "unknown"
    ELSE IF HasFraction(equation_tex) THEN "fraction"
    ELSE IF HasSum(equation_tex) THEN "summation"
    ELSE IF HasInt(equation_tex) THEN "integral"
    ELSE IF HasSqrt(equation_tex) THEN "radical"
    ELSE IF Has(equation_tex, "=") THEN "equation"
    ELSE IF HasIn(equation_tex) THEN "set_membership"
    ELSE IF HasSubset(equation_tex) THEN "set_relation"
    ELSE "expression"

NoError == "none"

CreateEmptyResult ==
    [equation_tex |-> <<>>, math_norm |-> <<>>, math_tokens |-> <<>>,
     math_kgrams |-> <<>>, complexity_score |-> 0, equation_type |-> "unknown",
     math_canonical |-> FALSE, error |-> NoError]

CreateFallbackResult(equation_tex, error) ==
    [equation_tex |-> equation_tex, math_norm |-> equation_tex,
     math_tokens |-> <<equation_tex>>, math_kgrams |-> <<equation_tex>>,
     complexity_score |-> 0, equation_type |-> "unknown",
     math_canonical |-> FALSE, error |-> error]

\* process_equation. `fails` says whether a step inside the try block raises
\* (as .strip() does on an argument that is not a string), `canonical`
\* whether the symbolic backend yields a canonical form.
ProcessEquation(equation_tex, fails, canonical) ==
    IF equation_tex = <<>> THEN [raised |-> FALSE, result |-> CreateEmptyResult]
    ELSE IF fails
         THEN [raised |-> FALSE,
               result |-> CreateFallbackResult(equation_tex, "exception text")]
    ELSE LET math_norm == NormalizeLatex(equation_tex)
             math_tokens == TokenizeEquation(math_norm)
         IN [raised |-> FALSE,
             result |-> [equation_tex |-> equation_tex,
                         math_norm |-> math_norm,
                         math_tokens |-> math_tokens,
                         math_kgrams |-> GenerateKgrams(math_tokens, DefaultK),
                         complexity_score |-> CalculateComplexity(equation_tex),
                         equation_type |-> ClassifyEquationType(equation_tex),
                         math_canonical |-> canonical,
                         error |-> NoError]]

----------------------------------------------------------------------------
(* The mathematical processor on its own: process_equation called on an    *)
(* equation, and the equation grown by appending to it                      *)

\* the characters equations are enumerated over; the longer equations below
\* add the rest of the alphabet
EqChars == {"\\", "x", "p", "1", ".", "+", "{", "$"}

EnumeratedEquations == UNION { [1..n -> EqChars] : n \in 0..MaxEqLen }

RECURSIVE Repeat(_, _)
Repeat(t, n) == IF n = 0 THEN <<>> ELSE t \o Repeat(t, n - 1)

\* longer equations: a fraction, a sum of five tokens, an unterminated
\* fraction, a braced group inside whitespace, and one whose score is just
\* under the cap
CuratedEquations ==
    { <<"\\", "f", "{", "x", "}", "{", "1", "}">>,
      <<" ", "x", "{", "1", "}", " ">>,
      <<"x", " ", "+", " ", "1", ".", "1", " ", "+", " ", "\\", "p">>,
      <<"\\", "f", "{", "x">>,
      Repeat(<<"\\", "x">>, 16) }

\* equations that match one or several classification rules
TypedEquations ==
    { <<"\\", "s", "=", "x">>,
      <<"\\", "i", "=", "x">>,
      <<"\\", "r", "{", "x", "}", "=", "1">>,
      <<"x", "=", "1">>,
      <<"x", "\\", "n", "x">>,
      <<"x", "\\", "b", "x">>,
      <<"x", "\\", "b", "x", "\\", "n", "x">>,
      <<"x", "=", "s", "(", "x", ")", "/", "i">>,
      <<"\\", "r", "{", "\\", "i", "}">> }

EquationInputs == EnumeratedEquations \cup CuratedEquations \cup TypedEquations

\* a well-formed command, operator or variable to append
Extensions == { <<"\\", "x">>, <<"+">>, <<"x">> }

InitMath ==
    /\ eq \in EquationInputs
    /\ eqres = [called |-> FALSE]
    /\ config = <<>>
    /\ validator = <<>>
    /\ arg = <<>>
    /\ ret = <<>>
    /\ last = [op |-> "none", n |-> 0]
    /\ fs = FileSystem(<<>>)
    /\ proc = NewProcessor(4, 0, TRUE, TRUE, TRUE)
    /\ monitor = NewMonitor(MaxHistory)
    /\ cin = <<>>
    /\ cout = <<>>
    /\ wk = IdleWorkers
    /\ wmon = IdleWorkers
    /\ arrived = <<>>
    /\ requested = <<>>
    /\ rag = <<>>

process_equation ==
    /\ ~eqres.called
    /\ \E fails \in BOOLEAN, canonical \in BOOLEAN :
         /\ fails => ~canonical
         /\ \E r \in {ProcessEquation(eq, fails, canonical)} :
               eqres' = [called |-> TRUE, fails |-> fails, raised |-> r.raised,
                         result |-> r.result]
    /\ UNCHANGED <<config, validator, arg, ret, eq, last, fs, proc, monitor, cin, cout, wk, wmon, arrived,
                   requested, rag>>

\* the equation is appended to and scored before and after
append_and_score ==
    /\ last.n < MaxGrow
    /\ \E ext \in Extensions :
         /\ eq' = eq \o ext
         /\ last' = [op |-> "append_and_score", n |-> last.n + 1, ext |-> ext,
                     before |-> CalculateComplexity(eq),
                     after |-> CalculateComplexity(eq \o ext)]
    /\ eqres' = [called |-> FALSE]
    /\ UNCHANGED <<config, validator, arg, ret, fs, proc, monitor, cin, cout, wk, wmon, arrived, requested, rag>>

NextMath == process_equation \/ append_and_score

SpecMath == InitMath /\ [][NextMath]_vars

\* a brace is left open or closed twice, or a "$" delimiter is unpaired
Malformed(text) ==
    \/ CountChars(text, {"{"}) # CountChars(text, {"}"})
    \/ CountChars(text, {"$"}) % 2 = 1

IsFallback(result, raw) ==
    /\ result.math_tokens = <<raw>>
    /\ result.math_kgrams = <<raw>>
    /\ result.error # NoError

\* C17 (as claimed): process_equation never raises, and on an internal
\* failure, a malformed or unterminated marker included, it returns the
\* fallback result: tokens and k-grams the single raw markup, error set.
C17_FailureFallsBack ==
    eqres.called =>
        /\ ~eqres.raised
        /\ (eq # <<>> /\ (eqres.fails \/ Malformed(eq))) => IsFallback(eqres.result, eq)

RECURSIVE SpaceJoined(_)
\* the tokens written out with one space between neighbours
SpaceJoined(tokens) ==
    IF tokens = <<>> THEN <<>>
    ELSE IF Len(tokens) = 1 THEN tokens[1]
    ELSE SpaceJoined(SubSeq(tokens, 1, Len(tokens) - 1)) \o <<" ">> \o tokens[Len(tokens)]

\* kgrams are the windows of k consecutive tokens, left to right
AreWindows(kgrams, tokens, k) ==
    /\ Len(kgrams) = Max(0, Len(tokens) - k + 1)
    /\ \A i \in 1..Len(kgrams) : kgrams[i] = SpaceJoined(SubSeq(tokens, i, i + k - 1))

\* C18 (as claimed): for every result of process_equation the k-grams are
\* the sliding windows of size 3 over the tokens: n tokens give
\* max(0, n - 3 + 1) k-grams.
C18_KgramsAreWindows ==
    eqres.called =>
        AreWindows(eqres.result.math_kgrams, eqres.result.math_tokens, DefaultK)

\* C18 (amended): for every result of process_equation that is not the
\* failure fallback (its error field is unset) the k-grams are the sliding
\* windows of size 3 over the tokens.
C18_KgramsAreWindowsUnlessFallback ==
    (eqres.called /\ eqres.result.error = NoError) =>
        AreWindows(eqres.result.math_kgrams, eqres.result.math_tokens, DefaultK)

\* a regular result with fewer k-grams than tokens and more than one window
C18_Witness ==
    /\ eqres.called
    /\ eqres.result.error = NoError
    /\ Len(eqres.result.math_kgrams) >= 2

IsSubstring(a, b) ==
    \E i \in 0..(Len(b) - Len(a)) : SubSeq(b, i + 1, i + Len(a)) = a

\* C19: every k-gram of a result is a contiguous substring of the
\* space-joined token sequence of the same result.
C19_KgramsAreSubstrings ==
    eqres.called =>
        \A i \in 1..Len(eqres.result.math_kgrams) :
            IsSubstring(eqres.result.math_kgrams[i],
                        SpaceJoined(eqres.result.math_tokens))

\* a result with more tokens than a window holds, whose first and last
\* k-grams differ
C19_Witness ==
    /\ eqres.called
    /\ Len(eqres.result.math_tokens) > DefaultK
    /\ eqres.result.math_kgrams[1]
         # eqres.result.math_kgrams[Len(eqres.result.math_kgrams)]

\* C20: appending a command, operator or variable to an equation never
\* decreases its complexity score.
C20_ComplexityMonotone ==
    IsCall("append_and_score") => last.after >= last.before

\* an append that took the score from under the cap to the cap
C20_Witness ==
    /\ IsCall("append_and_score")
    /\ last.before < ComplexityCap
    /\ last.after = ComplexityCap

\* C21 (as claimed): the normalized form returned by process_equation holds
\* no "$" and no backslash.
C21_NormHasNoControlChars ==
    eqres.called =>
        /\ ~Has(eqres.result.math_norm, "$")
        /\ ~Has(eqres.result.math_norm, "\\")

\* the classification rules in the claimed order, and the rules a text matches
RuleOrder ==
    <<"fraction", "summation", "integral", "radical", "equation",
      "set_membership", "set_relation">>

RuleMatches(text, k) ==
    CASE k = 1 -> HasFraction(text)
      [] k = 2 -> HasSum(text)
      [] k = 3 -> HasInt(text)
      [] k = 4 -> HasSqrt(text)
      [] k = 5 -> Has(text, "=")
      [] k = 6 -> HasIn(text)
      [] k = 7 -> HasSubset(text)

MatchingRules(text) == { k \in 1..Len(RuleOrder) : RuleMatches(text, k) }

\* C22: whenever process_equation classified a non-empty equation, the type
\* is that of the earliest rule the equation matches in the order fraction,
\* summation, integral, radical, equation, set_membership, set_relation, and
\* expression when it matches none.
C22_FirstMatchingRule ==
    (eqres.called /\ ~eqres.fails /\ eq # <<>>) =>
        eqres.result.equation_type
          = IF MatchingRules(eq) = {} THEN "expression"
            ELSE RuleOrder[SetMin(MatchingRules(eq))]

\* an equation matching the summation and the equation rule was classified
C22_Witness ==
    /\ eqres.called /\ ~eqres.fails
    /\ {2, 5} \subseteq MatchingRules(eq)
    /\ 1 \notin MatchingRules(eq)
    /\ eqres.result.equation_type = "summation"

----------------------------------------------------------------------------
(* ProductionConfig: settings read from the environment, updated from a      *)
(* file, validated on request, and handed to a processor's constructor.     *)
(* The overlap ratio is in percent. Of the settings, those that             *)
(* validate_config reads are kept, except the path whose existence is an    *)
(* input of the validation.                                                 *)

\* the environments the configuration is first read from
Environments ==
    [corpus_name : {"enhanced_scirag_corpus"}, chunk_size : {320},
     overlap_ratio : {12}, api_port : {8000, 0}, api_workers : {4},
     enable_auth : BOOLEAN, auth_token : {""}]

\* ProductionConfig.__init__
NewProductionConfig(env) ==
    [corpus_name |-> env.corpus_name,
     chunk_size |-> env.chunk_size,
     overlap_ratio |-> env.overlap_ratio,
     api_port |-> env.api_port,
     api_workers |-> env.api_workers,
     security_config |-> [enable_auth |-> env.enable_auth,
                          auth_token |-> env.auth_token]]

\* dict.get(key, default)
Get(section, key, default) ==
    IF key \in DOMAIN section THEN section[key] ELSE default

ChunkSizes == {-1, 0, 320}

OverlapRatios == {-10, 12, 150}

CoreSections ==
    { [k \in K |-> name] : K \in SUBSET {"corpus_name"}, name \in {"", "c"} }

ChunkingSections ==
    { [k \in K |-> IF k = "chunk_size" THEN cs ELSE ov] :
        K \in SUBSET {"chunk_size", "overlap_ratio"},
        cs \in ChunkSizes, ov \in OverlapRatios }

\* the configuration files: each section present or not
ConfigFiles ==
    { [k \in K |-> IF k = "core" THEN core ELSE chunking] :
        K \in SUBSET {"core", "chunking"},
        core \in CoreSections, chunking \in ChunkingSections }

\* load_config_from_file: the configuration after the file was read
LoadConfigFromFile(c, file) ==
    LET c1 == IF "core" \in DOMAIN file
              THEN [c EXCEPT !.corpus_name =
                                Get(file["core"], "corpus_name", c.corpus_name)]
              ELSE c
    IN IF "chunking" \in DOMAIN file
       THEN [c1 EXCEPT
               !.chunk_size = Get(file["chunking"], "chunk_size", c1.chunk_size),
               !.overlap_ratio =
                   Get(file["chunking"], "overlap_ratio", c1.overlap_ratio)]
       ELSE c1

\* the messages validate_config collects, in order
ValidationErrors(c, path_exists) ==
    (IF c.corpus_name = "" THEN <<"Corpus name is required">> ELSE <<>>)
    \o (IF ~path_exists THEN <<"Markdown files path does not exist">> ELSE <<>>)
    \o (IF c.chunk_size <= 0 THEN <<"Chunk size must be positive">> ELSE <<>>)
    \o (IF ~(0 <= c.overlap_ratio /\ c.overlap_ratio <= 100)
        THEN <<"Overlap ratio must be between 0 and 1">> ELSE <<>>)
    \o (IF ~(1 <= c.api_port /\ c.api_port <= 65535)
        THEN <<"API port must be between 1 and 65535">> ELSE <<>>)
    \o (IF c.api_workers <= 0 THEN <<"API workers must be positive">> ELSE <<>>)
    \o (IF c.security_config.enable_auth /\ c.security_config.auth_token = ""
        THEN <<"Auth token is required when authentication is enabled">>
        ELSE <<>>)

\* validate_config: the messages are printed, a flag is returned
ValidateConfig(c, path_exists) ==
    [ret |-> ValidationErrors(c, path_exists) = <<>>,
     printed |-> ValidationErrors(c, path_exists)]

InitConfig ==
    /\ config \in { NewProductionConfig(env) : env \in Environments }
    /\ proc = <<>>
    /\ last = [op |-> "none"]
    /\ fs = <<>>
    /\ monitor = <<>>
    /\ cin = <<>>
    /\ cout = <<>>
    /\ wk = IdleWorkers
    /\ wmon = IdleWorkers
    /\ arrived = <<>>
    /\ requested = <<>>
    /\ rag = <<>>
    /\ eq = <<>>
    /\ eqres = <<>>
    /\ validator = <<>>
    /\ arg = <<>>
    /\ ret = <<>>

\* config.load_config_from_file(file): returns nothing, raises nothing
load_config_from_file ==
    \E file \in ConfigFiles :
        /\ config' = LoadConfigFromFile(config, file)
        /\ last' = [op |-> "load_config_from_file", file |-> file,
                    raised |-> FALSE, errors |-> <<>>]
        /\ UNCHANGED <<fs, proc, monitor, cin, cout, wk, wmon, arrived, requested,
                       rag, eq, eqres, validator, arg, ret>>

\* config.validate_config()
validate_config ==
    \E path_exists \in BOOLEAN :
        /\ last' = [op |-> "validate_config",
                    ret |-> ValidateConfig(config, path_exists).ret,
                    printed |-> ValidateConfig(config, path_exists).printed]
        /\ UNCHANGED <<fs, proc, monitor, config, cin, cout, wk, wmon, arrived,
                       requested, rag, eq, eqres, validator, arg, ret>>

\* EnhancedDocumentProcessor(chunk_size=config.chunk_size,
\*                           overlap_ratio=config.overlap_ratio)
construct_processor ==
    /\ proc' = NewProcessor(config.chunk_size, config.overlap_ratio,
                            TRUE, TRUE, TRUE)
    /\ last' = [op |-> "EnhancedDocumentProcessor", raised |-> FALSE]
    /\ UNCHANGED <<fs, monitor, config, cin, cout, wk, wmon, arrived, requested,
                   rag, eq, eqres, validator, arg, ret>>

NextConfig ==
    \/ load_config_from_file
    \/ validate_config
    \/ construct_processor

SpecConfig == InitConfig /\ [][NextConfig]_vars

ValidNumbers(chunk_size, overlap_ratio) ==
    /\ chunk_size > 0
    /\ 0 <= overlap_ratio /\ overlap_ratio <= 100

\* C23 (as claimed): a load that leaves a non-positive chunk size or an
\* overlap ratio outside [0, 1] in the configuration is rejected with a list
\* of validation errors, and no processor is ever constructed with such
\* values.
C23_InvalidConfigRejected ==
    /\ (IsCall("load_config_from_file")
          /\ ~ValidNumbers(config.chunk_size, config.overlap_ratio))
         => (last.raised /\ last.errors # <<>>)
    /\ proc # <<>> => ValidNumbers(proc.chunk_size, proc.overlap_pct)

----------------------------------------------------------------------------
(* The glossary extractor on its own: extract_glossary_terms called on a    *)
(* text of one or several sentences                                         *)

MaxGlossaryLen == 4

GlossaryChars == {"a", " ", "$", ":", "."}

\* longer texts: several candidate sentences, with and without a term or a
\* definition
CuratedGlossaryTexts ==
    { <<"a", " ", ":", ".", "a", " ", ":", " ", "a">>,
      <<"a", " ", ":", " ", "a", ".", "a", " ", ":", "a", ".", "a">>,
      <<"$", " ", ":", " ", "a", ".", ":", "a">>,
      <<"$", " ", "$", " ", ":", " ", "a", ".", "a", ":", "a">> }

GlossaryTexts ==
    UNION { [1..n -> GlossaryChars] : n \in 0..MaxGlossaryLen }
      \cup CuratedGlossaryTexts

InitGlossary ==
    /\ arg \in GlossaryTexts
    /\ ret = [called |-> FALSE]
    /\ config = <<>>
    /\ proc = <<>>
    /\ last = [op |-> "none"]
    /\ fs = <<>>
    /\ monitor = <<>>
    /\ cin = <<>>
    /\ cout = <<>>
    /\ wk = IdleWorkers
    /\ wmon = IdleWorkers
    /\ arrived = <<>>
    /\ requested = <<>>
    /\ rag = <<>>
    /\ eq = <<>>
    /\ eqres = <<>>
    /\ validator = <<>>

\* extractor.extract_glossary_terms(arg, source_id)
extract_glossary_terms ==
    /\ ~ret.called
    /\ ret' = [called |-> TRUE, value |-> ExtractGlossaryTerms(arg)]
    /\ UNCHANGED <<fs, proc, monitor, last, config, cin, cout, wk, wmon, arrived,
                   requested, rag, eq, eqres, validator, arg>>

NextGlossary == extract_glossary_terms

SpecGlossary == InitGlossary /\ [][NextGlossary]_vars

\* the candidate sentences of a text
Candidates(text) ==
    { i \in 1..Len(SplitIntoSentences(text)) :
        IsDefinitionSentence(SplitIntoSentences(text)[i]) }

\* the candidates that lack a term or a definition
Lacking(text) ==
    { i \in Candidates(text) :
        \/ ExtractTerm(SplitIntoSentences(text)[i]) = <<>>
        \/ ExtractDefinition(SplitIntoSentences(text)[i]) = <<>> }

----------------------------------------------------------------------------
(* The asset processor on its own: process_asset called on a text holding a *)
(* tabular, extract_all_assets on a text holding figure and table           *)
(* environments                                                             *)

MaxTableLen == 5

MaxAssetLen == 5

\* a tabular environment around every content of up to MaxTableLen
\* characters, and texts with no or no closed tabular
TableTexts ==
    { <<"(">> \o c \o <<")">> :
        c \in UNION { [1..n -> {"a", " ", "&", ";"}] : n \in 0..MaxTableLen } }
      \cup { <<"[", "a", "]">>, <<"(", "a", "&", "a">>,
             <<"[", "(", " ", "a", " ", "&", "a", ";", " ", ";", "a", "&", " ", ")",
               "]">> }

AssetTexts ==
    UNION { [1..n -> {"a", "<", ">", "[", "]", "\n"}] : n \in 0..MaxAssetLen }
      \cup { <<"a", "<", "a", ">", "a", "[", "a", "]", "a">>,
             <<"<", "a", ">", "\n", "<", "a", ">">> }

InitAssets ==
    /\ arg \in TableTexts \cup AssetTexts
    /\ ret = [op |-> "none"]
    /\ config = <<>>
    /\ proc = <<>>
    /\ last = [op |-> "none"]
    /\ fs = <<>>
    /\ monitor = <<>>
    /\ cin = <<>>
    /\ cout = <<>>
    /\ wk = IdleWorkers
    /\ wmon = IdleWorkers
    /\ arrived = <<>>
    /\ requested = <<>>
    /\ rag = <<>>
    /\ eq = <<>>
    /\ eqres = <<>>
    /\ validator = <<>>

\* processor.process_asset(arg, source_id)
process_asset ==
    /\ ret.op = "none"
    /\ ret' = [op |-> "process_asset", value |-> ProcessAsset(arg)]
    /\ UNCHANGED <<fs, proc, monitor, last, config, cin, cout, wk, wmon, arrived,
                   requested, rag, eq, eqres, validator, arg>>

\* processor.extract_all_assets(arg, source_id)
extract_all_assets ==
    /\ ret.op = "none"
    /\ ret' = [op |-> "extract_all_assets", value |-> ExtractAllAssets(arg)]
    /\ UNCHANGED <<fs, proc, monitor, last, config, cin, cout, wk, wmon, arrived,
                   requested, rag, eq, eqres, validator, arg>>

NextAssets ==
    \/ process_asset
    \/ extract_all_assets

SpecAssets == InitAssets /\ [][NextAssets]_vars

\* C25 (as claimed): the table data of a table asset is a rectangular
\* matrix: every row has as many cells as the first.
C25_TableRectangular ==
    (ret.op = "process_asset" /\ ret.value.kind = "asset") =>
        \A r \in 1..Len(ret.value.table_data) :
            Len(ret.value.table_data[r]) = Len(ret.value.table_data[1])

RECURSIVE FlatFrom(_, _, _)
\* from i on, every environment is closed by its own end marker before
\* another one opens; `open` is the environment i lies in
FlatFrom(text, i, open) ==
    IF i > Len(text) THEN open = "none"
    ELSE IF text[i] \in {"<", "["}
         THEN open = "none" /\ FlatFrom(text, i + 1, text[i])
    ELSE IF text[i] = ">" THEN open = "<" /\ FlatFrom(text, i + 1, "none")
    ELSE IF text[i] = "]" THEN open = "[" /\ FlatFrom(text, i + 1, "none")
    ELSE FlatFrom(text, i + 1, open)

\* C30 (as claimed): for a text of f figure blocks and t table blocks, none
\* nested, extract_all_assets returns f + t assets.
C30_EachBlockOnce ==
    (ret.op = "extract_all_assets" /\ FlatFrom(arg, 1, "none")) =>
        Len(ret.value) = CountChars(arg, {"<"}) + CountChars(arg, {"["})

----------------------------------------------------------------------------
(* The outcomes of process_document, over the step-by-step workers *)

\* the phases in the order the code runs them
PhaseOrder ==
    { <<"idle", "read">>, <<"read", "chunk">>, <<"read", "done">>,
      <<"chunk", "enrich">>, <<"chunk", "except">>,
      <<"enrich", "done">>, <<"except", "done">> }

SuccessesOf(w) == wmon[MonitorOf(w)].success_count - wk[w].pre.success_count

ErrorsOf(w) == wmon[MonitorOf(w)].error_count - wk[w].pre.error_count

\* every chunk of the chunker's list was enriched, in list order, the whole
\* list is returned and one success and no error was recorded
CompletedCall(w) ==
    /\ Len(wk[w].ret) = Len(wk[w].chunks)
    /\ \A k \in 1..Len(wk[w].ret) :
         /\ wk[w].ret[k].chunk_index = wk[w].chunks[k].chunk_index
         /\ wk[w].ret[k].text = wk[w].chunks[k].text
    /\ SuccessesOf(w) = 1
    /\ ErrorsOf(w) = 0

\* the call returned the empty list and recorded no success
FailedCall(w) ==
    /\ wk[w].ret = <<>>
    /\ SuccessesOf(w) = 0
    /\ ErrorsOf(w) <= 1

\* C26: a process_document call moves through READ, CHUNK, ENRICH (one chunk
\* after the other, in list order) and AGGREGATE in this order, and ends in
\* one of two ways: the whole enriched list is returned with one success
\* recorded after the last chunk, or the empty list is returned with no
\* success recorded. No partial list, and never a success and an error for
\* one call.
C26_TwoOutcomes ==
    [][\A w \in Workers :
         /\ wk'[w].pc # wk[w].pc => <<wk[w].pc, wk'[w].pc>> \in PhaseOrder
         /\ (wk[w].pc = "enrich" /\ wk'[w].pc = "enrich" /\ wk'[w] # wk[w]) =>
              /\ wk'[w].i = wk[w].i + 1
              /\ wmon'[MonitorOf(w)] = wmon[MonitorOf(w)]
         /\ (wk[w].pc # "done" /\ wk'[w].pc = "done") =>
              \/ (wk[w].pc = "enrich" /\ wk[w].i = Len(wk[w].chunks) + 1
                    /\ CompletedCall(w)')
              \/ (wk[w].pc \in {"read", "except"} /\ FailedCall(w)')
      ]_vars

\* one call returned several enriched chunks, the other failed in the chunker
C26_Witness ==
    \E w, v \in Workers :
        /\ wk[w].pc = "done" /\ Len(wk[w].ret) >= 2 /\ SuccessesOf(w) = 1
        /\ wk[v].pc = "done" /\ wk[v].ret = <<>> /\ ErrorsOf(v) = 1

----------------------------------------------------------------------------
(* One monitor shared by workers that call record_success and record_error  *)
(* at the same time. The counter update `self.success_count += 1` is a      *)
(* read of the attribute followed by a write of the sum, with no lock       *)
(* around it: another worker may run between the two. The deque append is   *)
(* one step.                                                                *)

MaxCalls == 2

RecordOps == {"record_success", "record_error"}

CounterOf(op) == IF op = "record_success" THEN "success_count" ELSE "error_count"

NoCalls == [op \in RecordOps |-> 0]

InitShared ==
    /\ monitor = NewMonitor(MaxHistory)
    /\ wk = [w \in Workers |-> [pc |-> "idle", op |-> "none", read |-> 0,
                                calls |-> NoCalls]]
    /\ fs = <<>>
    /\ proc = <<>>
    /\ last = [op |-> "none"]
    /\ cin = <<>>
    /\ cout = <<>>
    /\ wmon = IdleWorkers
    /\ arrived = <<>>
    /\ requested = <<>>
    /\ rag = <<>>
    /\ eq = <<>>
    /\ eqres = <<>>
    /\ config = <<>>
    /\ validator = <<>>
    /\ arg = <<>>
    /\ ret = <<>>

\* the call is entered and the counter attribute is read
SRead(w) ==
    /\ wk[w].pc = "idle"
    /\ \E op \in RecordOps :
         /\ wk[w].calls[op] < MaxCalls
         /\ wk' = [wk EXCEPT ![w] = [@ EXCEPT !.pc = "read", !.op = op,
                                              !.read = monitor[CounterOf(op)]]]
    /\ UNCHANGED <<fs, proc, monitor, last, cin, cout, wmon, arrived, requested, rag,
                   eq, eqres, config, validator, arg, ret>>

\* the sum is written back, the history is appended to, the call returns
SWrite(w) ==
    /\ wk[w].pc = "read"
    /\ monitor' =
         [(IF wk[w].op = "record_success"
           THEN record_success(monitor, "document_processing", 100)
           ELSE record_error(monitor, "document_processing", "e1"))
            EXCEPT ![CounterOf(wk[w].op)] = wk[w].read + 1]
    /\ wk' = [wk EXCEPT ![w] = [@ EXCEPT !.pc = "idle",
                                         !.calls[wk[w].op] = @ + 1]]
    /\ UNCHANGED <<fs, proc, last, cin, cout, wmon, arrived, requested, rag,
                   eq, eqres, config, validator, arg, ret>>

NextShared ==
    \E w \in Workers :
        \/ SRead(w)
        \/ SWrite(w)

SpecShared == InitShared /\ [][NextShared]_vars

RECURSIVE CallsMade(_, _)
\* the calls of op that the workers of W have completed
CallsMade(W, op) ==
    IF W = {} THEN 0
    ELSE LET w == CHOOSE x \in W : TRUE
         IN wk[w].calls[op] + CallsMade(W \ {w}, op)

\* C27 (as claimed): once every call has returned, success_count is the
\* number of record_success calls made and error_count the number of
\* record_error calls made.
C27_NoLostUpdate ==
    (\A w \in Workers : wk[w].pc = "idle") =>
        /\ monitor.success_count = CallsMade(Workers, "record_success")
        /\ monitor.error_count = CallsMade(Workers, "record_error")

----------------------------------------------------------------------------
(* SciRagEnhanced from its constructor on: __init__ with                    *)
(* _initialize_enhanced_processing, then load_documents_enhanced            *)

\* the parameters of EnhancedDocumentProcessor.__init__
ProcessorParameters ==
    {"chunk_size", "overlap_ratio", "enable_mathematical_processing",
     "enable_asset_processing", "enable_glossary_extraction"}

\* the keyword arguments _initialize_enhanced_processing passes
InitializeKeywords ==
    {"enable_mathematical_processing", "enable_asset_processing",
     "enable_glossary_extraction", "chunk_size", "chunk_overlap"}

\* a call with a keyword the function does not declare raises TypeError
CallRaises(keywords, parameters) == ~(keywords \subseteq parameters)

\* _initialize_enhanced_processing: the object afterwards, and whether the
\* exception left the method
InitializeEnhancedProcessing(r, available) ==
    IF ~available
    THEN [rag |-> [r EXCEPT !.enable_enhanced_processing = FALSE], raised |-> FALSE]
    ELSE IF ~CallRaises(InitializeKeywords, ProcessorParameters)
         THEN [rag |-> [r EXCEPT !.enhanced_processor = TRUE], raised |-> FALSE]
    ELSE IF r.fallback_on_error
         THEN [rag |-> [r EXCEPT !.enable_enhanced_processing = FALSE],
               raised |-> FALSE]
    ELSE [rag |-> r, raised |-> TRUE]

\* SciRagEnhanced.__init__: `a` holds the enable_enhanced_processing and
\* fallback_on_error arguments, whether the enhanced modules were imported
\* (available) and the configuration's ENABLE_ENHANCED_PROCESSING (configured)
ConstructSciRagEnhanced(a) ==
    LET r == [enable_enhanced_processing |->
                  a.enable_enhanced_processing /\ a.available /\ a.configured,
              enhanced_processor |-> FALSE,
              fallback_on_error |-> a.fallback_on_error,
              enhanced_chunks |-> <<>>,
              processing_stats |-> NewStats]
    IN IF r.enable_enhanced_processing
       THEN InitializeEnhancedProcessing(r, a.available)
       ELSE [rag |-> r, raised |-> FALSE]

ConstructorArguments ==
    [enable_enhanced_processing : BOOLEAN, available : BOOLEAN,
     configured : BOOLEAN, fallback_on_error : BOOLEAN,
     chunking : ProcChunking]

InitConstruct ==
    /\ fs \in { FileSystem(d) : d \in FileDocs }
    /\ rag = <<>>
    /\ arg = <<>>
    /\ proc = <<>>
    /\ monitor = NewMonitor(MaxHistory)
    /\ last = [op |-> "none", n |-> 0, produced |-> 0]
    /\ cin = <<>>
    /\ cout = <<>>
    /\ wk = IdleWorkers
    /\ wmon = IdleWorkers
    /\ arrived = <<>>
    /\ requested = <<>>
    /\ eq = <<>>
    /\ eqres = <<>>
    /\ config = <<>>
    /\ validator = <<>>
    /\ ret = <<>>

\* SciRagEnhanced(...): when the constructor raises there is no object
construct ==
    /\ arg = <<>>
    /\ \E a \in ConstructorArguments :
         /\ arg' = a
         /\ rag' = IF ConstructSciRagEnhanced(a).raised THEN <<>>
                   ELSE ConstructSciRagEnhanced(a).rag
         /\ proc' = IF /\ ~ConstructSciRagEnhanced(a).raised
                       /\ ConstructSciRagEnhanced(a).rag.enhanced_processor
                    THEN NewProcessor(a.chunking[1], a.chunking[2], TRUE, TRUE, TRUE)
                    ELSE <<>>
         /\ last' = [last EXCEPT !.op = "SciRagEnhanced"]
    /\ UNCHANGED <<fs, monitor, cin, cout, wk, wmon, arrived, requested, eq, eqres,
                   config, validator, ret>>

NextConstruct ==
    \/ construct
    \/ load_documents_enhanced

SpecConstruct == InitConstruct /\ [][NextConstruct]_vars

\* C28 (as claimed): an object constructed with enhanced processing
\* requested, available and enabled holds a processor and has enhanced
\* processing enabled, and its load_documents_enhanced does not take the
\* basic fallback.
C28_EnhancedPathTaken ==
    (arg # <<>> /\ arg.enable_enhanced_processing /\ arg.available /\ arg.configured) =>
        /\ rag # <<>>
        /\ rag.enhanced_processor
        /\ rag.enable_enhanced_processing
        /\ IsCall("load_documents_enhanced") => ~last.basic

----------------------------------------------------------------------------
(* DataIntegrityChecker: validate_enhanced_chunks and                       *)
(* validate_processing_pipeline. A chunk is the record of the fields the    *)
(* checks read; a message is its text and the index of the chunk it is      *)
(* about (-1 for none); confidence is in percent.                           *)

MaxValidated == 2

Message(index, text) == [chunk |-> index, text |-> text]

When(condition, message) == IF condition THEN <<message>> ELSE <<>>

NoMessages == [errors |-> <<>>, warnings |-> <<>>]

\* the errors of _validate_chunk_basic
ChunkBasicErrors(chunk, index) ==
    When(chunk.id = "", Message(index, "Missing ID"))
    \o When(chunk.text = <<>>, Message(index, "Missing text content"))
    \o When(chunk.source_id = "", Message(index, "Missing source ID"))
    \o When(chunk.chunk_index < 0, Message(index, "Invalid chunk index"))
    \o When(chunk.content_type \notin ContentTypes,
            Message(index, "Invalid content type"))
    \o When(~(0 <= chunk.confidence /\ chunk.confidence <= 100),
            Message(index, "Invalid confidence score"))

\* _validate_equation_consistency
EquationConsistent(equation_tex, math_norm) ==
    /\ equation_tex # <<>>
    /\ math_norm # <<>>
    /\ \A cmd \in {"\\", "{", "}", "^", "_", "&", "%", "$"} : ~Has(math_norm, cmd)

\* _validate_mathematical_content
MathMessages(chunk, index) ==
    IF chunk.mathematical_content = NoPayload
    THEN [errors |-> <<Message(index, "Missing mathematical content for equation")>>,
          warnings |-> <<>>]
    ELSE LET math_content == chunk.mathematical_content
         IN [errors |->
                When(math_content.equation_tex = <<>>,
                     Message(index, "Missing equation LaTeX"))
                \o When(math_content.complexity_score < 0,
                        Message(index, "Invalid complexity score")),
             warnings |->
                When(math_content.math_norm = <<>>,
                     Message(index, "Missing normalized equation"))
                \o When(math_content.math_tokens = <<>>,
                        Message(index, "Missing math tokens"))
                \o When(math_content.math_kgrams = <<>>,
                        Message(index, "Missing math k-grams"))
                \o When(/\ math_content.equation_tex # <<>>
                        /\ math_content.math_norm # <<>>
                        /\ ~EquationConsistent(math_content.equation_tex,
                                               math_content.math_norm),
                        Message(index, "Equation normalization may be inconsistent"))]

\* _validate_asset_content
AssetMessages(chunk, index) ==
    IF chunk.asset_content = NoPayload
    THEN [errors |-> <<Message(index, "Missing asset content")>>, warnings |-> <<>>]
    ELSE [errors |-> When(chunk.asset_content.asset_type = "",
                          Message(index, "Missing asset type")),
          warnings |->
             When(chunk.asset_content.caption = <<>>,
                  Message(index, "Missing asset caption"))
             \o When(/\ chunk.asset_content.file_path # ""
                     /\ ~chunk.asset_content.file_exists,
                     Message(index, "Asset file not found"))]

\* _validate_glossary_content
GlossaryMessages(chunk, index) ==
    IF chunk.glossary_content = NoPayload
    THEN [errors |-> <<Message(index, "Missing glossary content for definition")>>,
          warnings |-> <<>>]
    ELSE [errors |->
             When(chunk.glossary_content.term = <<>>,
                  Message(index, "Missing glossary term"))
             \o When(chunk.glossary_content.definition = <<>>,
                     Message(index, "Missing glossary definition")),
          warnings |-> When(chunk.glossary_content.context = <<>>,
                            Message(index, "Missing glossary context"))]

\* _validate_chunk_content_type
ContentTypeMessages(chunk, index) ==
    IF chunk.content_type = "EQUATION" THEN MathMessages(chunk, index)
    ELSE IF chunk.content_type \in {"FIGURE", "TABLE"} THEN AssetMessages(chunk, index)
    ELSE IF chunk.content_type = "DEFINITION" THEN GlossaryMessages(chunk, index)
    ELSE NoMessages

\* _validate_chunk_metadata
MetadataMessages(chunk, index) ==
    [errors |->
        When(chunk.processing_time < 0, Message(index, "Invalid processing time"))
        \o When(chunk.error_count < 0, Message(index, "Invalid error count"))
        \o When(~chunk.metadata_is_dict, Message(index, "Invalid metadata type")),
     warnings |-> When(chunk.processing_version = "",
                       Message(index, "Missing processing version"))]

RECURSIVE ChunkMessages(_, _, _)
\* the loop of validate_enhanced_chunks, from position k (indices from 0)
ChunkMessages(chunks, k, v) ==
    IF k > Len(chunks) THEN v
    ELSE ChunkMessages(chunks, k + 1,
           [errors |-> v.errors \o ChunkBasicErrors(chunks[k], k - 1)
                         \o ContentTypeMessages(chunks[k], k - 1).errors
                         \o MetadataMessages(chunks[k], k - 1).errors,
            warnings |-> v.warnings \o ContentTypeMessages(chunks[k], k - 1).warnings
                           \o MetadataMessages(chunks[k], k - 1).warnings])

\* what validate_enhanced_chunks returns for the lists v it has filled
ChunksVerdict(v) ==
    [validator |-> v, is_valid |-> v.errors = <<>>,
     messages |-> v.errors \o v.warnings]

\* validate_enhanced_chunks: both lists are reset first
ValidateEnhancedChunks(chunks) ==
    IF chunks = <<>>
    THEN [validator |->
             [errors |-> <<>>,
              warnings |-> <<Message(-1, "No chunks provided for validation")>>],
          is_valid |-> TRUE,
          messages |-> <<Message(-1, "No chunks provided for validation")>>]
    ELSE ChunksVerdict(ChunkMessages(chunks, 1, NoMessages))

\* chunk_indices != sorted(chunk_indices)
Unsorted(chunks) ==
    \E k \in 1..(Len(chunks) - 1) : chunks[k].chunk_index > chunks[k + 1].chunk_index

\* _validate_pipeline_consistency, the input being one document
PipelineConsistency(output_chunks) ==
    IF output_chunks = <<>>
    THEN [errors |-> <<Message(-1, "No chunks produced from input data")>>,
          warnings |-> <<>>]
    ELSE [errors |->
             When(\E j, k \in 1..Len(output_chunks) :
                      j # k /\ output_chunks[j].id = output_chunks[k].id,
                  Message(-1, "Duplicate chunk IDs found")),
          warnings |->
             When(\E j, k \in 1..Len(output_chunks) :
                      output_chunks[j].source_id # output_chunks[k].source_id,
                  Message(-1, "Multiple source IDs found in single document processing"))
             \o When(Unsorted(output_chunks),
                     Message(-1, "Chunk indices are not sequential"))]

\* the rest of validate_processing_pipeline, after validate_enhanced_chunks
\* returned c: its messages are appended to the error list
PipelineVerdict(c, output_chunks) ==
    LET errors == c.validator.errors \o c.messages
                    \o PipelineConsistency(output_chunks).errors
        warnings == c.validator.warnings \o PipelineConsistency(output_chunks).warnings
    IN [validator |-> [errors |-> errors, warnings |-> warnings],
        is_valid |-> errors = <<>>,
        messages |-> errors \o warnings]

\* validate_processing_pipeline
ValidateProcessingPipeline(input_data, output_chunks) ==
    IF input_data = <<>>
    THEN [validator |-> [errors |-> <<Message(-1, "No input data provided")>>,
                         warnings |-> <<>>],
          is_valid |-> FALSE,
          messages |-> <<Message(-1, "No input data provided")>>]
    ELSE PipelineVerdict(ValidateEnhancedChunks(output_chunks), output_chunks)

\* a chunk with nothing to report
CleanChunk(id, index) ==
    [id |-> id, text |-> <<"a">>, source_id |-> "doc", chunk_index |-> index,
     content_type |-> "PROSE", confidence |-> 30,
     mathematical_content |-> NoPayload, asset_content |-> NoPayload,
     glossary_content |-> NoPayload,
     processing_time |-> 0, error_count |-> 0, processing_version |-> "1.0",
     metadata_is_dict |-> TRUE]

\* chunks with nothing to report, with warnings only, and with errors
ValidatedChunks ==
    UNION { { CleanChunk(id, index),
              [CleanChunk(id, index) EXCEPT
                 !.content_type = "FIGURE",
                 !.asset_content = [asset_type |-> "figure", caption |-> <<>>,
                                    file_path |-> "", file_exists |-> FALSE]],
              [CleanChunk(id, index) EXCEPT
                 !.content_type = "EQUATION",
                 !.mathematical_content =
                     [equation_tex |-> <<"\\", "x">>, math_norm |-> <<"\\", "x">>,
                      math_tokens |-> <<<<"\\">>, <<"x">>>>, math_kgrams |-> <<>>,
                      complexity_score |-> 6]],
              [CleanChunk(id, index) EXCEPT
                 !.content_type = "DEFINITION",
                 !.glossary_content = [term |-> <<"a">>, definition |-> <<"a">>,
                                       context |-> <<"a">>]],
              [CleanChunk(id, index) EXCEPT !.text = <<>>],
              [CleanChunk(id, index) EXCEPT !.content_type = "DEFINITION"] } :
            id \in {"doc_0", "doc_1"}, index \in {0, 1} }

\* the arguments the checker is called with
ValidatorArguments ==
    [input_data : {<<>>, <<"a">>},
     chunks : UNION { [1..n -> ValidatedChunks] : n \in 0..MaxValidated }]

InitValidator ==
    /\ validator = NoMessages
    /\ arg \in ValidatorArguments
    /\ last = [op |-> "none"]
    /\ fs = <<>>
    /\ proc = <<>>
    /\ monitor = <<>>
    /\ cin = <<>>
    /\ cout = <<>>
    /\ wk = IdleWorkers
    /\ wmon = IdleWorkers
    /\ arrived = <<>>
    /\ requested = <<>>
    /\ rag = <<>>
    /\ eq = <<>>
    /\ eqres = <<>>
    /\ config = <<>>
    /\ ret = <<>>

\* checker.validate_enhanced_chunks(arg.chunks)
validate_enhanced_chunks ==
    /\ validator' = ValidateEnhancedChunks(arg.chunks).validator
    /\ last' = [op |-> "validate_enhanced_chunks",
                is_valid |-> ValidateEnhancedChunks(arg.chunks).is_valid,
                messages |-> ValidateEnhancedChunks(arg.chunks).messages]
    /\ UNCHANGED <<fs, proc, monitor, cin, cout, wk, wmon, arrived, requested,
                   rag, eq, eqres, config, arg, ret>>

\* checker.validate_processing_pipeline(arg.input_data, arg.chunks)
validate_processing_pipeline ==
    /\ validator' = ValidateProcessingPipeline(arg.input_data, arg.chunks).validator
    /\ last' = [op |-> "validate_processing_pipeline",
                is_valid |->
                    ValidateProcessingPipeline(arg.input_data, arg.chunks).is_valid,
                messages |->
                    ValidateProcessingPipeline(arg.input_data, arg.chunks).messages]
    /\ UNCHANGED <<fs, proc, monitor, cin, cout, wk, wmon, arrived, requested,
                   rag, eq, eqres, config, arg, ret>>

NextValidator ==
    \/ validate_enhanced_chunks
    \/ validate_processing_pipeline

SpecValidator == InitValidator /\ [][NextValidator]_vars

\* C29 (as claimed): validate_processing_pipeline reports valid whenever
\* there was input and neither the chunk checks nor the consistency checks
\* produced an error, whatever warnings they produced.
C29_WarningsKeepValid ==
    (/\ IsCall("validate_processing_pipeline")
     /\ arg.input_data # <<>>
     /\ ChunkMessages(arg.chunks, 1, NoMessages).errors = <<>>
     /\ PipelineConsistency(arg.chunks).errors = <<>>)
        => last.is_valid

====
